---------------------------- MODULE Spec2Model ----------------------------
(***************************************************************************)
(* State-machine model of the networking core of the local file sharer     *)
(* (src/app.py): FileSenderThread, FileReceiverThread (accept loop and     *)
(* per-connection handlers) and the part of App that consumes their        *)
(* signals.                                                                *)
(*                                                                         *)
(* Conventions                                                             *)
(*  - A byte string is a sequence of integers.  Header bytes are ASCII     *)
(*    codes.  Body data is counted in real bytes, but moves in blocks of   *)
(*    Granule bytes; a block of a sender's file is the token               *)
(*    BlockToken(s, i), an integer above every ASCII code.                 *)
(*  - Time is in milliseconds relative to the session's start_time; every  *)
(*    time.time() read returns the previous read plus a delay drawn from   *)
(*    TimeSteps.                                                            *)
(*  - The third component of a progress event (the rate) is not recorded:  *)
(*    no other statement of the program reads it.                          *)
(***************************************************************************)
EXTENDS Integers, Sequences, FiniteSets, TLC

(* ------------------------------ bounds -------------------------------- *)
\* largest source file of a sender, in blocks
MaxFileBlocks == 20
\* latest time.time() value a session may read, in ms since its start
MaxTime == 3200
\* delays between two consecutive clock reads of a session, in ms
TimeSteps == {0, 800}
\* a block of body data: 256 KiB
Granule == 256 * 1024

(* ------------------------- program constants -------------------------- *)
BUFFER_SIZE == 2 * 1024 * 1024
MIN_BUFFER_SIZE == 512 * 1024
MAX_BUFFER_SIZE == 2 * 1024 * 1024
\* ADAPT_WINDOW_SECONDS = 0.75, in ms
ADAPT_WINDOW_MS == 750
\* ADAPT_IMPROVE_THRESHOLD = 0.10 and ADAPT_WORSEN_THRESHOLD = 0.10, in percent
ADAPT_IMPROVE_PCT == 10
ADAPT_WORSEN_PCT == 10
UPDATE_BYTES_THRESHOLD == 512 * 1024
FILE_SIZE_HEADER_LENGTH == 20

(* ASCII codes of the bytes the header code handles *)
CH_NL == 10
CH_TAB == 9
CH_SP == 32
CH_PLUS == 43
CH_MINUS == 45
CH_DOT == 46
CH_SLASH == 47
CH_ZERO == 48
CH_USCORE == 95
CH_a == 97
CH_b == 98
CH_x == 120

Min(a, b) == IF a <= b THEN a ELSE b
Max(a, b) == IF a >= b THEN a ELSE b

(* ------------------------- wire protocol codec ------------------------ *)
\* str(n) for n >= 0: the decimal digits of n
RECURSIVE DecDigits(_)
DecDigits(n) == IF n < 10 THEN <<CH_ZERO + n>>
                ELSE Append(DecDigits(n \div 10), CH_ZERO + (n % 10))

\* variant whose size field is one byte narrower
EncodeSize_Narrow(n) ==
  LET d == DecDigits(n)
  IN  d \o [i \in 1..Max(0, FILE_SIZE_HEADER_LENGTH - 1 - Len(d)) |-> CH_SP]

\* f"{file_size:<20}": left-justified, space-padded to at least FILE_SIZE_HEADER_LENGTH
EncodeSize(n) ==
  LET d == DecDigits(n)
  IN  d \o [i \in 1..Max(0, FILE_SIZE_HEADER_LENGTH - Len(d)) |-> CH_SP]

\* filename.encode('utf-8') + b'\n'
EncodeName(name) == Append(name, CH_NL)

IsSpace(c) == c \in {CH_SP, CH_TAB, CH_NL}
IsDigit(c) == c >= CH_ZERO /\ c <= CH_ZERO + 9

\* the largest element of a non-empty set of numbers
MaxOf(S) == CHOOSE i \in S : \A j \in S : j <= i
MinOf(S) == CHOOSE i \in S : \A j \in S : i <= j

\* bytes.strip(): leading and trailing whitespace removed
Strip(b) ==
  LET keep == {i \in 1..Len(b) : ~IsSpace(b[i])}
  IN  IF keep = {} THEN <<>> ELSE SubSeq(b, MinOf(keep), MaxOf(keep))

\* the digits-and-underscores part of a Python integer literal:
\* digit (["_"] digit)*
IsDigitRun(b) ==
  /\ b # <<>>
  /\ \A i \in 1..Len(b) :
       \/ IsDigit(b[i])
       \/ /\ b[i] = CH_USCORE /\ i > 1 /\ i < Len(b)
          /\ IsDigit(b[i - 1]) /\ IsDigit(b[i + 1])

\* the value of the digits b[i..], underscores skipped, after acc
RECURSIVE DigitRunValue(_, _, _)
DigitRunValue(b, i, acc) ==
  IF i > Len(b) THEN acc
  ELSE IF b[i] = CH_USCORE THEN DigitRunValue(b, i + 1, acc)
  ELSE DigitRunValue(b, i + 1, 10 * acc + (b[i] - CH_ZERO))

HasSign(b) == b # <<>> /\ Head(b) \in {CH_PLUS, CH_MINUS}
Unsigned(b) == IF HasSign(b) THEN Tail(b) ELSE b

\* int(text) accepts: optional sign, then a digit run
IntParses(b) == IsDigitRun(Unsigned(b))
IntValue(b) ==
  LET v == DigitRunValue(Unsigned(b), 1, 0)
  IN  IF b # <<>> /\ Head(b) = CH_MINUS THEN 0 - v ELSE v

\* index of the last "/" of a path, 0 if none
LastSlash(p) ==
  LET at == {i \in 1..Len(p) : p[i] = CH_SLASH}
  IN  IF at = {} THEN 0 ELSE MaxOf(at)

\* os.path.basename
Basename(p) == SubSeq(p, LastSlash(p) + 1, Len(p))

(* ----------------------- adaptive chunk controller --------------------- *)
Blocks(bytes) == bytes \div Granule

\* variant that grows the chunk when the window was slower and shrinks it
\* when the window was faster
AdaptChunk_Swapped(cur, total_bytes, last_adapt_bytes, last_adapt_time, now) ==
  IF now - last_adapt_time >= ADAPT_WINDOW_MS /\ now > 0 /\ total_bytes > 0
  THEN LET wb == Blocks(total_bytes - last_adapt_bytes)
           wt == now - last_adapt_time
           tb == Blocks(total_bytes)
       IN  IF 100 * wb * now < (100 - ADAPT_WORSEN_PCT) * tb * wt /\ cur < MAX_BUFFER_SIZE
           THEN Min(cur * 2, MAX_BUFFER_SIZE)
           ELSE IF 100 * wb * now > (100 + ADAPT_IMPROVE_PCT) * tb * wt /\ cur > MIN_BUFFER_SIZE
           THEN Max(cur \div 2, MIN_BUFFER_SIZE)
           ELSE cur
  ELSE cur

\* the chunk size after the adaptation block run at clock reading `now`
\* (times relative to start_time, so total_elapsed = now)
AdaptChunk(cur, total_bytes, last_adapt_bytes, last_adapt_time, now) ==
  IF now - last_adapt_time >= ADAPT_WINDOW_MS
  THEN LET wb == Blocks(total_bytes - last_adapt_bytes)
           wt == now - last_adapt_time
           tb == Blocks(total_bytes)
           te == now
           \* avg_speed = total/te if te > 0 else 0 ; tested "avg_speed > 0"
           avgPositive == te > 0 /\ total_bytes > 0
           \* delta = (window_speed - avg_speed) / avg_speed, cross-multiplied
           improve == 100 * wb * te > (100 + ADAPT_IMPROVE_PCT) * tb * wt
           worsen  == 100 * wb * te < (100 - ADAPT_WORSEN_PCT) * tb * wt
       IN  IF ~avgPositive THEN cur
           ELSE IF improve /\ cur < MAX_BUFFER_SIZE THEN Min(cur * 2, MAX_BUFFER_SIZE)
           ELSE IF worsen /\ cur > MIN_BUFFER_SIZE THEN Max(cur \div 2, MIN_BUFFER_SIZE)
           ELSE cur
  ELSE cur

AdaptFires(last_adapt_time, now) == now - last_adapt_time >= ADAPT_WINDOW_MS

\* the test guarding every progress emission inside the loops
ProgressDue(total_bytes, last_update_bytes, file_size) ==
  total_bytes - last_update_bytes > UPDATE_BYTES_THRESHOLD \/ total_bytes = file_size


(* ------------------------------- state -------------------------------- *)
Senders == {1, 2}
Conns == {1, 2}

VARIABLES
  snd,      \* snd[s]: the FileSenderThread of session s (fields below)
  sstop,    \* sstop[s]: position of the thread executing FileSenderThread.stop
  sev,      \* sev[s]: signals emitted by sender s, in order
  app,      \* the App fields the sender's signals reach
  wire,     \* wire[c]: every byte the connecting side wrote on connection c
  conn,     \* conn[c]: the connection as the receiving host sees it
  srv,      \* the FileReceiverThread: listening socket and accept loop
  hnd,      \* hnd[c]: the handle_client thread of connection c
  rev,      \* rev[c]: signals emitted by the handler of connection c, in order
  fs,       \* the Downloads directory: path -> content
  ui,       \* the App window: position of closeEvent
  timer,    \* the announcer: App.broadcast_timer and the running tick
  disc,     \* the DiscoveryThread
  found,    \* device_found signals queued for App.add_device, in order
  devices_list  \* the items of App.devices_list, in order

vars == <<snd, sstop, sev, app, wire, conn, srv, hnd, rev, fs,
          ui, timer, disc, found, devices_list>>
dscVars == <<ui, timer, disc, found, devices_list>>
xferVars == <<snd, sstop, sev, app, wire, conn, srv, hnd, rev, fs>>
sndVars == <<snd, sstop, sev, app>>
rcvVars == <<srv, hnd, rev, fs>>

\* block i of the file sender s reads
BlockToken(s, i) == 1000 * s + i
\* blocks first+1 .. first+n of sender s's file
FileBlocks(s, first, n) == [i \in 1..n |-> BlockToken(s, first + i)]

\* paths a sender may be given: "a", "d/b" (basename "b")
SendPaths == { <<CH_a>>, <<CH_x, CH_SLASH, CH_b>> }

Ev(k, n) == [k |-> k, n |-> n]

(* --------------------------- FileSenderThread -------------------------- *)
\* the clock locals of run() and of handle_client are gone when it returns
\* (prev_chunk_size is history: current_chunk_size before the latest
\* adaptation window)
Returned(me) == [me EXCEPT !.now = 0, !.last_adapt_time = 0, !.last_adapt_bytes = 0,
                           !.last_update_bytes = 0, !.prev_chunk_size = 0]

\* __init__ plus start(): the thread is running, at the first line of run()
SenderStart(kind, nblocks, path) ==
  [ pc |-> "getsize", fkind |-> kind, nblocks |-> nblocks, path |-> path,
    sock |-> "None", sockst |-> "unborn", interrupted |-> FALSE,
    file_size |-> 0, offset |-> 0, sent_bytes |-> 0, last_update_bytes |-> 0,
    current_chunk_size |-> 0, last_adapt_time |-> 0, last_adapt_bytes |-> 0,
    prev_chunk_size |-> 0, now |-> 0, fpos |-> 0,
    exc |-> "none", fault |-> FALSE, observed |-> FALSE ]

\* a session that is not started in this specification
SenderOff == [SenderStart("ok", 0, <<CH_a>>) EXCEPT !.pc = "off"]

\* the peer end of connection c is gone from the receiving host's view
PeerClosed(c) == [conn EXCEPT ![c] = IF @.st = "none" THEN @ ELSE [@ EXCEPT !.peer = "closed"]]

\* line 164: os.path.getsize
SGetSizeOk(s) ==
  LET me == snd[s] IN
  /\ me.pc = "getsize" /\ me.fkind # "missing"
  /\ snd' = [snd EXCEPT ![s] = [me EXCEPT !.pc = "socket", !.file_size = me.nblocks * Granule]]
  /\ UNCHANGED <<dscVars, sstop, sev, app, wire, conn, rcvVars>>

\* line 164 raising OSError: control reaches line 270
SGetSizeFail(s) ==
  LET me == snd[s] IN
  /\ me.pc = "getsize" /\ me.fkind = "missing"
  /\ snd' = [snd EXCEPT ![s] = [me EXCEPT !.pc = "finished", !.exc = "getsize", !.fault = TRUE]]
  /\ UNCHANGED <<dscVars, sstop, sev, app, wire, conn, rcvVars>>

\* line 165: socket.socket()
SSocketOk(s) ==
  LET me == snd[s] IN
  /\ me.pc = "socket"
  /\ snd' = [snd EXCEPT ![s] = [me EXCEPT !.pc = "configure", !.sock = "ref", !.sockst = "open"]]
  /\ UNCHANGED <<dscVars, sstop, sev, app, wire, conn, rcvVars>>

\* line 165 raising before any socket exists
SSocketFail(s) ==
  LET me == snd[s] IN
  /\ me.pc = "socket"
  /\ snd' = [snd EXCEPT ![s] = [me EXCEPT !.pc = "finished", !.exc = "socket", !.fault = TRUE]]
  /\ UNCHANGED <<dscVars, sstop, sev, app, wire, conn, rcvVars>>

\* lines 168-171: setsockopt, settimeout
SConfigureOk(s) ==
  LET me == snd[s] IN
  /\ me.pc = "configure" /\ me.sockst # "closed"
  /\ snd' = [snd EXCEPT ![s] = [me EXCEPT !.pc = "connect"]]
  /\ UNCHANGED <<dscVars, sstop, sev, app, wire, conn, rcvVars>>

\* lines 168-171 raising on a socket stop() has closed
SConfigureClosed(s) ==
  LET me == snd[s] IN
  /\ me.pc = "configure" /\ me.sockst = "closed"
  /\ snd' = [snd EXCEPT ![s] = [me EXCEPT !.pc = "close", !.exc = "closed"]]
  /\ UNCHANGED <<dscVars, sstop, sev, app, wire, conn, rcvVars>>

\* line 172: connect, with the 10 s timeout
SConnectOk(s) ==
  LET me == snd[s] IN
  /\ me.pc = "connect" /\ me.sockst # "closed"
  /\ srv.sock = "listening" /\ conn[s].st = "none"
  /\ snd' = [snd EXCEPT ![s] = [me EXCEPT !.pc = "hdr_size", !.sockst = "connected"]]
  /\ conn' = [conn EXCEPT ![s] = [st |-> "pending", peer |-> "open", kind |-> "sender"]]
  /\ UNCHANGED <<dscVars, sstop, sev, app, wire, rcvVars>>

\* line 172 raising: refused, timed out, or the socket was closed by stop()
SConnectFail(s) ==
  LET me == snd[s] IN
  /\ me.pc = "connect"
  /\ \E why \in (IF me.sockst = "closed" THEN {"closed"} ELSE {"refused", "timeout"}) :
       snd' = [snd EXCEPT ![s] = [me EXCEPT !.pc = "close", !.exc = why,
                                            !.fault = (@ \/ why # "closed")]]
  /\ UNCHANGED <<dscVars, sstop, sev, app, wire, conn, rcvVars>>

\* sendall(bytes) writes all of it
SendAllOk(s, bytes, okpc, okrec) ==
  /\ snd[s].sockst # "closed"
  /\ snd' = [snd EXCEPT ![s] = [okrec EXCEPT !.pc = okpc]]
  /\ wire' = [wire EXCEPT ![s] = @ \o bytes]

\* sendall(bytes) raises: at once on a socket stop() has closed, or after a
\* prefix of the bytes was written when the connection fails
SendAllFail(s, bytes) ==
  LET me == snd[s] IN
  \/ /\ me.sockst = "closed"
     /\ snd' = [snd EXCEPT ![s] = [me EXCEPT !.pc = "close", !.exc = "closed"]]
     /\ wire' = wire
  \/ /\ me.sockst # "closed"
     /\ \E j \in {0, Len(bytes) - 1} :
          wire' = [wire EXCEPT ![s] = @ \o SubSeq(bytes, 1, j)]
     /\ snd' = [snd EXCEPT ![s] = [me EXCEPT !.pc = "close", !.exc = "io", !.fault = TRUE]]

\* line 175: the size field
SHdrSizeOk(s) ==
  /\ snd[s].pc = "hdr_size"
  /\ SendAllOk(s, EncodeSize(snd[s].file_size), "hdr_name", snd[s])
  /\ UNCHANGED <<dscVars, sstop, sev, app, conn, rcvVars>>

SHdrSizeFail(s) ==
  /\ snd[s].pc = "hdr_size"
  /\ SendAllFail(s, EncodeSize(snd[s].file_size))
  /\ UNCHANGED <<dscVars, sstop, sev, app, conn, rcvVars>>

\* lines 174, 176: the base name and the newline
SHdrNameOk(s) ==
  /\ snd[s].pc = "hdr_name"
  /\ SendAllOk(s, EncodeName(Basename(snd[s].path)), "open", snd[s])
  /\ UNCHANGED <<dscVars, sstop, sev, app, conn, rcvVars>>

SHdrNameFail(s) ==
  /\ snd[s].pc = "hdr_name"
  /\ SendAllFail(s, EncodeName(Basename(snd[s].path)))
  /\ UNCHANGED <<dscVars, sstop, sev, app, conn, rcvVars>>

\* lines 178-187: the locals, then open(file_path, "rb")
SOpenOk(s) ==
  LET me == snd[s] IN
  /\ me.pc = "open" /\ me.fkind # "unreadable"
  /\ snd' = [snd EXCEPT ![s] =
        [me EXCEPT !.pc = "sf_loop", !.sent_bytes = 0, !.now = 0,
                   !.last_update_bytes = 0, !.current_chunk_size = BUFFER_SIZE,
                   !.last_adapt_time = 0, !.last_adapt_bytes = 0, !.offset = 0]]
  /\ UNCHANGED <<dscVars, sstop, sev, app, wire, conn, rcvVars>>

\* line 187 raising: the file cannot be opened for reading
SOpenFail(s) ==
  LET me == snd[s] IN
  /\ me.pc = "open" /\ me.fkind = "unreadable"
  /\ snd' = [snd EXCEPT ![s] = [me EXCEPT !.pc = "close", !.exc = "open", !.fault = TRUE,
                                          !.current_chunk_size = BUFFER_SIZE]]
  /\ UNCHANGED <<dscVars, sstop, sev, app, wire, conn, rcvVars>>

\* variant of line 190 without the isInterruptionRequested() test
SSfLoop_Ignore(s) ==
  LET me == snd[s] IN
  /\ me.pc = "sf_loop"
  /\ snd' = [snd EXCEPT ![s] =
        IF me.offset < me.file_size THEN [me EXCEPT !.pc = "sf_send"]
        ELSE [me EXCEPT !.pc = "close"]]
  /\ UNCHANGED <<dscVars, sstop, sev, app, wire, conn, rcvVars>>

\* line 190: while not self.isInterruptionRequested() and offset < file_size
SSfLoop(s) ==
  LET me == snd[s] IN
  /\ me.pc = "sf_loop"
  /\ snd' = [snd EXCEPT ![s] =
        IF me.interrupted THEN [me EXCEPT !.pc = "close", !.observed = TRUE]
        ELSE IF me.offset < me.file_size THEN [me EXCEPT !.pc = "sf_send"]
        ELSE [me EXCEPT !.pc = "close"]]
  /\ UNCHANGED <<dscVars, sstop, sev, app, wire, conn, rcvVars>>

ToSend(me) == Min(me.current_chunk_size, me.file_size - me.offset)

\* lines 191-192 on a socket stop() has closed: sendfile raises
SSfSendClosed(s) ==
  LET me == snd[s] IN
  /\ me.pc = "sf_send" /\ me.sockst = "closed"
  /\ snd' = [snd EXCEPT ![s] = [me EXCEPT !.pc = "fb_seek"]]
  /\ UNCHANGED <<dscVars, sstop, sev, app, wire, conn, rcvVars>>

\* lines 191-201: sendfile returns the count it was asked to send
SSfSendOk(s) ==
  LET me == snd[s]
      n  == ToSend(me) IN
  /\ me.pc = "sf_send" /\ me.sockst # "closed"
  /\ wire' = [wire EXCEPT ![s] = @ \o FileBlocks(s, Blocks(me.offset), Blocks(n))]
  /\ snd' = [snd EXCEPT ![s] = [me EXCEPT !.pc = "sf_adapt", !.offset = @ + n,
                                          !.sent_bytes = @ + n]]
  /\ UNCHANGED <<dscVars, sstop, sev, app, conn, rcvVars>>

\* lines 193-197: sendfile returns None after sending what it was asked to
SSfSendNone(s) ==
  LET me == snd[s]
      n  == ToSend(me) IN
  /\ me.pc = "sf_send" /\ me.sockst # "closed"
  /\ wire' = [wire EXCEPT ![s] = @ \o FileBlocks(s, Blocks(me.offset), Blocks(n))]
  /\ snd' = [snd EXCEPT ![s] = [me EXCEPT !.pc = "close", !.offset = me.file_size,
                                          !.sent_bytes = me.file_size, !.fault = TRUE]]
  /\ UNCHANGED <<dscVars, sstop, sev, app, conn, rcvVars>>

\* lines 198-199: sendfile returns 0 (the file ended at offset)
SSfSendZero(s) ==
  LET me == snd[s] IN
  /\ me.pc = "sf_send" /\ me.sockst # "closed"
  /\ snd' = [snd EXCEPT ![s] = [me EXCEPT !.pc = "close", !.fault = TRUE]]
  /\ UNCHANGED <<dscVars, sstop, sev, app, wire, conn, rcvVars>>

\* line 192 raising after j blocks of this call went out: control reaches line 223
SSfSendError(s) ==
  LET me == snd[s]
      n  == ToSend(me) IN
  /\ me.pc = "sf_send" /\ me.sockst # "closed"
  /\ \E j \in {0, Blocks(n) - 1} :
       wire' = [wire EXCEPT ![s] = @ \o FileBlocks(s, Blocks(me.offset), j)]
  /\ snd' = [snd EXCEPT ![s] = [me EXCEPT !.pc = "fb_seek", !.fault = TRUE]]
  /\ UNCHANGED <<dscVars, sstop, sev, app, conn, rcvVars>>

\* one clock read, the adaptation block and the progress test that follows it
\* (lines 203-222 and 239-257): the record after them, and whether progress
\* is emitted
AfterChunk(me, d) ==
  LET now   == me.now + d
      fires == AdaptFires(me.last_adapt_time, now)
      chunk == AdaptChunk(me.current_chunk_size, me.sent_bytes, me.last_adapt_bytes,
                          me.last_adapt_time, now)
      due   == ProgressDue(me.sent_bytes, me.last_update_bytes, me.file_size)
  IN  [me EXCEPT !.now = now, !.current_chunk_size = chunk,
                 !.prev_chunk_size = IF fires THEN me.current_chunk_size ELSE @,
                 !.last_adapt_time = IF fires THEN now ELSE @,
                 !.last_adapt_bytes = IF fires THEN me.sent_bytes ELSE @,
                 !.last_update_bytes = IF due THEN me.sent_bytes ELSE @]

EmitProgress(log, me) ==
  IF ProgressDue(me.sent_bytes, me.last_update_bytes, me.file_size)
  THEN Append(log, Ev("progress", me.sent_bytes)) ELSE log

\* lines 203-222
SSfAdapt(s) ==
  LET me == snd[s] IN
  /\ me.pc = "sf_adapt"
  /\ \E d \in TimeSteps :
       /\ me.now + d <= MaxTime
       /\ snd' = [snd EXCEPT ![s] = [AfterChunk(me, d) EXCEPT !.pc = "sf_loop"]]
  /\ sev' = [sev EXCEPT ![s] = EmitProgress(@, me)]
  /\ UNCHANGED <<dscVars, sstop, app, wire, conn, rcvVars>>

\* variant in which the fallback counts the bytes it sends from zero again
SFbSeek_Recount(s) ==
  LET me == snd[s] IN
  /\ me.pc = "fb_seek"
  /\ snd' = [snd EXCEPT ![s] = [me EXCEPT !.pc = "fb_loop", !.fpos = 0, !.sent_bytes = 0,
                                          !.last_update_bytes = 0, !.last_adapt_bytes = 0]]
  /\ UNCHANGED <<dscVars, sstop, sev, app, wire, conn, rcvVars>>

\* lines 223-227: except Exception: f.seek(0), a fresh buffer
SFbSeek(s) ==
  LET me == snd[s] IN
  /\ me.pc = "fb_seek"
  /\ snd' = [snd EXCEPT ![s] = [me EXCEPT !.pc = "fb_loop", !.fpos = 0]]
  /\ UNCHANGED <<dscVars, sstop, sev, app, wire, conn, rcvVars>>

\* line 228: while not self.isInterruptionRequested()
SFbLoop(s) ==
  LET me == snd[s] IN
  /\ me.pc = "fb_loop"
  /\ snd' = [snd EXCEPT ![s] =
        IF me.interrupted THEN [me EXCEPT !.pc = "fb_final", !.observed = TRUE]
        ELSE [me EXCEPT !.pc = "fb_io"]]
  /\ UNCHANGED <<dscVars, sstop, sev, app, wire, conn, rcvVars>>

\* f.readinto(buffer) with len(buffer) = current_chunk_size (lines 230-233)
BytesRead(me) == Min(me.current_chunk_size, me.file_size - me.fpos)

\* lines 233-235: end of file
SFbEof(s) ==
  LET me == snd[s] IN
  /\ me.pc = "fb_io" /\ BytesRead(me) = 0
  /\ snd' = [snd EXCEPT ![s] = [me EXCEPT !.pc = "fb_final"]]
  /\ UNCHANGED <<dscVars, sstop, sev, app, wire, conn, rcvVars>>

\* lines 233-237: a chunk read and passed to sendall
SFbSendOk(s) ==
  LET me == snd[s]
      n  == BytesRead(me) IN
  /\ me.pc = "fb_io" /\ n > 0
  /\ SendAllOk(s, FileBlocks(s, Blocks(me.fpos), Blocks(n)), "fb_adapt",
               [me EXCEPT !.fpos = @ + n, !.sent_bytes = @ + n])
  /\ UNCHANGED <<dscVars, sstop, sev, app, conn, rcvVars>>

\* line 236 raising: the exception leaves run() through lines 264-271
SFbSendFail(s) ==
  LET me == snd[s]
      n  == BytesRead(me) IN
  /\ me.pc = "fb_io" /\ n > 0
  /\ SendAllFail(s, FileBlocks(s, Blocks(me.fpos), Blocks(n)))
  /\ UNCHANGED <<dscVars, sstop, sev, app, conn, rcvVars>>

\* lines 239-257
SFbAdapt(s) ==
  LET me == snd[s] IN
  /\ me.pc = "fb_adapt"
  /\ \E d \in TimeSteps :
       /\ me.now + d <= MaxTime
       /\ snd' = [snd EXCEPT ![s] = [AfterChunk(me, d) EXCEPT !.pc = "fb_loop"]]
  /\ sev' = [sev EXCEPT ![s] = EmitProgress(@, me)]
  /\ UNCHANGED <<dscVars, sstop, app, wire, conn, rcvVars>>

\* lines 259-263: the emission after the fallback loop
SFbFinal(s) ==
  LET me == snd[s] IN
  /\ me.pc = "fb_final"
  /\ snd' = [snd EXCEPT ![s] = [me EXCEPT !.pc = "close",
        !.last_update_bytes =
            IF ProgressDue(me.sent_bytes, me.last_update_bytes, me.file_size)
            THEN me.sent_bytes ELSE @]]
  /\ sev' = [sev EXCEPT ![s] = EmitProgress(@, me)]
  /\ UNCHANGED <<dscVars, sstop, app, wire, conn, rcvVars>>

\* variant of lines 264-267 that skips self._sock.close()
SClose_Leak(s) ==
  LET me == snd[s] IN
  /\ me.pc = "close"
  /\ snd' = [snd EXCEPT ![s] = [me EXCEPT !.pc = "unref"]]
  /\ UNCHANGED <<dscVars, sstop, sev, app, wire, conn, rcvVars>>

\* lines 264-267: finally: if self._sock is not None: self._sock.close()
SClose(s) ==
  LET me == snd[s] IN
  /\ me.pc = "close"
  /\ snd' = [snd EXCEPT ![s] = [me EXCEPT !.pc = "unref",
                                          !.sockst = IF me.sock = "None" THEN @ ELSE "closed"]]
  /\ conn' = IF me.sock = "None" THEN conn ELSE PeerClosed(s)
  /\ UNCHANGED <<dscVars, sstop, sev, app, wire, rcvVars>>

\* lines 268-271: self._sock = None, then the outer except
SUnref(s) ==
  LET me == snd[s] IN
  /\ me.pc = "unref"
  /\ snd' = [snd EXCEPT ![s] = [me EXCEPT !.pc = "finished", !.sock = "None"]]
  /\ UNCHANGED <<dscVars, sstop, sev, app, wire, conn, rcvVars>>

\* lines 272-273: finally: self.finished.emit()
SFinished(s) ==
  LET me == snd[s] IN
  /\ me.pc = "finished"
  /\ snd' = [snd EXCEPT ![s] = [Returned(me) EXCEPT !.pc = "done"]]
  /\ sev' = [sev EXCEPT ![s] = Append(@, Ev("finished", 0))]
  /\ UNCHANGED <<dscVars, sstop, app, wire, conn, rcvVars>>

(* ------------------------ FileSenderThread.stop ------------------------ *)
\* what self._sock.close() under lines 157-158 (86-88, 291) may raise: on a
\* reference run() has cleared meanwhile AttributeError, on a socket nothing
\* or OSError
CloseOutcomes(sock) == IF sock = "None" THEN {"AttributeError"} ELSE {"none", "OSError"}

\* variant of the handler of stop() that lets AttributeError pass
Escapes_OnlyOSError(exc) == exc = "AttributeError"

\* lines 159-160 (89-90, 292-293): except Exception: pass; does exc leave stop()?
Escapes(exc) == FALSE

\* line 155: requestInterruption() sets the flag of a running thread
StopRequest(s) ==
  /\ sstop[s] = "idle" /\ snd[s].pc # "off"
  /\ sstop' = [sstop EXCEPT ![s] = "check"]
  /\ snd' = [snd EXCEPT ![s] = [@ EXCEPT !.interrupted = (@ \/ snd[s].pc # "done")]]
  /\ UNCHANGED <<dscVars, sev, app, wire, conn, rcvVars>>

\* line 157: if self._sock is not None
StopCheck(s) ==
  /\ sstop[s] = "check"
  /\ sstop' = [sstop EXCEPT ![s] = IF snd[s].sock = "None" THEN "done" ELSE "closing"]
  /\ UNCHANGED <<dscVars, snd, sev, app, wire, conn, rcvVars>>

\* line 158: self._sock.close(); if run() cleared the attribute meanwhile the
\* AttributeError is swallowed by lines 159-160
StopClose(s) ==
  /\ sstop[s] = "closing"
  /\ \E exc \in CloseOutcomes(snd[s].sock) :
       sstop' = [sstop EXCEPT ![s] = IF Escapes(exc) THEN "raised" ELSE "done"]
  /\ snd' = [snd EXCEPT ![s] = [@ EXCEPT !.sockst = IF snd[s].sock = "None" THEN @ ELSE "closed"]]
  /\ conn' = IF snd[s].sock = "None" THEN conn ELSE PeerClosed(s)
  /\ UNCHANGED <<dscVars, sev, app, wire, rcvVars>>

(* ------------------------ App: on_send_finished ------------------------ *)
HasFinished(s) == \E i \in 1..Len(sev[s]) : sev[s][i].k = "finished"

\* App.send_file, lines 728-741: the state in which the thread was started
AppSending == [status_label |-> "Sending", transfer_state |-> "active", delivered |-> {}]

\* lines 775-783: the slot connected to FileSenderThread.finished
\* stop() is called once more on a thread it was called on before
StopAgain(s) ==
  /\ sstop[s] = "done" /\ snd[s].pc # "off"
  /\ sstop' = [sstop EXCEPT ![s] = "check"]
  /\ snd' = [snd EXCEPT ![s] = [@ EXCEPT !.interrupted = (@ \/ snd[s].pc # "done")]]
  /\ UNCHANGED <<dscVars, sev, app, wire, conn, rcvVars>>

OnSendFinished(s) ==
  /\ HasFinished(s) /\ s \notin app.delivered
  /\ app' = [status_label |-> "Status: File sent successfully!",
             transfer_state |-> "finished",
             delivered |-> app.delivered \cup {s}]
  /\ UNCHANGED <<dscVars, snd, sstop, sev, wire, conn, rcvVars>>


(* --------------------- peers that are not this program ----------------- *)
\* a size field holding `text`, space-padded to the field's width
PadField(text) == text \o [i \in 1..(FILE_SIZE_HEADER_LENGTH - Len(text)) |-> CH_SP]
Header(field, name) == field \o EncodeName(name)

\* largest body a scripted peer sends, in blocks
MaxRawBlocks == 2
\* the length of a short read of header bytes
ShortRead == 7
RawNames == { <<CH_a>> }
\* size fields int() rejects, or accepts with a negative value
BadSizeFields == { PadField(<<CH_MINUS, CH_ZERO + 1>>), PadField(<<CH_x>>), PadField(<<>>) }
RawSizeFields == { EncodeSize(0), EncodeSize(MaxRawBlocks * Granule) } \cup BadSizeFields

\* the byte streams a scripted peer may be writing on connection c; it may
\* end (close, stall beyond SOCKET_TIMEOUT, or reset) after any prefix
RawScripts(c) ==
  { Header(f, nm) \o FileBlocks(c, 0, MaxRawBlocks) : f \in RawSizeFields, nm \in RawNames }

IsPrefix(p, q) == Len(p) <= Len(q) /\ SubSeq(q, 1, Len(p)) = p

\* a scripted peer connects while the socket listens
PeerConnect(c) ==
  /\ conn[c].st = "none" /\ srv.sock = "listening"
  /\ conn' = [conn EXCEPT ![c] = [st |-> "pending", peer |-> "open", kind |-> "raw"]]
  /\ UNCHANGED <<dscVars, sndVars, wire, rcvVars>>

\* bytes of connection c the handler has not read yet
Unread(c) == Len(wire[c]) - hnd[c].rpos

\* a scripted peer has written exactly what the handler has read, and its
\* future is open
Lazy(c) == conn[c].kind = "raw" /\ conn[c].peer = "open" /\ Unread(c) = 0

\* how many of `avail` waiting header bytes a recv(req) returns: all it can,
\* or a short read
ReadSizes(req, avail) ==
  {Min(req, avail)} \cup (IF Min(req, avail) > ShortRead THEN {ShortRead} ELSE {})

\* what conn.recv(req) may return when it returns data (req and the result
\* in stream items: header bytes, or blocks of body)
RecvData(c, req, sizes(_, _)) ==
  IF Unread(c) > 0
  THEN { SubSeq(wire[c], hnd[c].rpos + 1, hnd[c].rpos + k) : k \in sizes(req, Unread(c)) }
  ELSE IF Lazy(c)
  THEN UNION { { SubSeq(sc, Len(wire[c]) + 1, Len(wire[c]) + k) :
                   k \in sizes(req, Len(sc) - Len(wire[c])) } :
               sc \in { x \in RawScripts(c) : IsPrefix(wire[c], x) /\ Len(x) > Len(wire[c]) } }
  ELSE {}

AnySize(req, avail) == 1..Min(req, avail)

\* the wire after the handler received `data`
Received(c, data) == IF Unread(c) > 0 THEN wire ELSE [wire EXCEPT ![c] = @ \o data]

\* recv finds the stream ended in the way `how`
RecvEnds(c, how) == Unread(c) = 0 /\ (conn[c].peer = how \/ Lazy(c))

(* --------------------------- FileReceiverThread ------------------------ *)
\* __init__, lines 281-286: the socket is bound and listening
ReceiverInit(pc) ==
  [ sock |-> "listening", pc |-> pc, interrupted |-> FALSE, cur |-> 1, why |-> "none",
    stopping |-> FALSE, stopped |-> FALSE, raised |-> FALSE ]

\* a handler thread that does not exist yet
HandlerIdle ==
  [ pc |-> "idle", hdr |-> <<>>, file_size |-> 0, name |-> <<>>, filename |-> <<>>,
    save_path |-> <<>>, fpos |-> 0,
    received_bytes |-> 0, last_update_bytes |-> 0, current_chunk_size |-> 0,
    last_adapt_time |-> 0, last_adapt_bytes |-> 0, prev_chunk_size |-> 0, now |-> 0,
    rpos |-> 0, exc |-> "none", sawEof |-> FALSE, afterFail |-> FALSE ]

NoConn == [st |-> "none", peer |-> "open", kind |-> "none"]

\* the address accept() returns for connection c (addr[0])
PeerAddr(c) == 100 + c

\* a signal of the receiver: reception_started, progress or file_received
REv(k, n, addr, name, cause) == [k |-> k, n |-> n, addr |-> addr, name |-> name, cause |-> cause]
Terminal(e) == e.k \in {"received", "timeout", "error"}
HasFailure(log) == \E i \in 1..Len(log) : log[i].k \in {"timeout", "error"}

(* FileReceiverThread.stop, lines 288-293 *)
RStopRequest ==
  /\ srv.pc # "off" /\ ~srv.stopping
  /\ srv' = [srv EXCEPT !.interrupted = (@ \/ srv.pc # "exited"), !.stopping = TRUE]
  /\ UNCHANGED <<dscVars, sndVars, wire, conn, hnd, rev, fs>>

RStopClose ==
  /\ srv.stopping /\ ~srv.stopped
  /\ \E exc \in CloseOutcomes(srv.sock) :
       srv' = [srv EXCEPT !.sock = "closed", !.stopped = TRUE, !.raised = @ \/ Escapes(exc)]
  /\ UNCHANGED <<dscVars, sndVars, wire, conn, hnd, rev, fs>>

\* stop() is called once more
RStopAgain ==
  /\ srv.stopped
  /\ srv' = [srv EXCEPT !.interrupted = (@ \/ srv.pc # "exited"), !.stopped = FALSE]
  /\ UNCHANGED <<dscVars, sndVars, wire, conn, hnd, rev, fs>>

(* FileReceiverThread.run, lines 295-321 *)
\* line 300: while not self.isInterruptionRequested()
ALoop ==
  /\ srv.pc = "loop"
  /\ srv' = [srv EXCEPT !.pc = IF srv.interrupted THEN "closing" ELSE "accept"]
  /\ UNCHANGED <<dscVars, sndVars, wire, conn, hnd, rev, fs>>

\* line 302: accept() returns the next pending connection
AAccept(c) ==
  /\ srv.pc = "accept" /\ srv.sock = "listening" /\ conn[c].st = "pending"
  /\ srv' = [srv EXCEPT !.pc = "setup", !.cur = c]
  /\ conn' = [conn EXCEPT ![c].st = "accepted"]
  /\ UNCHANGED <<dscVars, sndVars, wire, hnd, rev, fs>>

\* line 302 raising on the socket stop() closed; lines 316-319 break
AAcceptClosed ==
  /\ srv.pc = "accept" /\ srv.sock = "closed"
  /\ srv' = [srv EXCEPT !.pc = "closing", !.why = "accept"]
  /\ UNCHANGED <<dscVars, sndVars, wire, conn, hnd, rev, fs>>

\* line 302 when stop() closes the socket under an accept() that is already
\* waiting (the socket has no timeout): where close() does not wake the
\* waiting call, it keeps waiting
AAcceptBlocked ==
  /\ srv.pc = "accept" /\ srv.sock = "closed"
  /\ \A c \in Conns : conn[c].st # "pending"
  /\ srv' = [srv EXCEPT !.pc = "blocked"]
  /\ UNCHANGED <<dscVars, sndVars, wire, conn, hnd, rev, fs>>

\* lines 305-306: setsockopt on the accepted socket
ASetupOk ==
  /\ srv.pc = "setup"
  /\ srv' = [srv EXCEPT !.pc = "start"]
  /\ UNCHANGED <<dscVars, sndVars, wire, conn, hnd, rev, fs>>

\* lines 305-306 raising (the peer has already reset the connection);
\* lines 316-319 break
ASetupFail ==
  /\ srv.pc = "setup" /\ RecvEnds(srv.cur, "reset")
  /\ srv' = [srv EXCEPT !.pc = "closing", !.why = "setup"]
  /\ conn' = [conn EXCEPT ![srv.cur].peer = "reset"]
  /\ UNCHANGED <<dscVars, sndVars, wire, hnd, rev, fs>>

\* lines 309-314: the handler thread is created and started
AStart ==
  /\ srv.pc = "start"
  /\ srv' = [srv EXCEPT !.pc = "loop"]
  /\ hnd' = [hnd EXCEPT ![srv.cur] =
               [@ EXCEPT !.pc = "size",
                         !.afterFail = \E d \in Conns : HasFailure(rev[d])]]
  /\ UNCHANGED <<dscVars, sndVars, wire, conn, rev, fs>>

\* line 321: self.server_socket.close()
AClose ==
  /\ srv.pc = "closing"
  /\ srv' = [srv EXCEPT !.pc = "exited", !.sock = "closed"]
  /\ UNCHANGED <<dscVars, sndVars, wire, conn, hnd, rev, fs>>

(* FileReceiverThread.handle_client, lines 323-395 *)
\* leaving "with conn": the accepted socket is closed
HandlerExit(c, notes, peer) ==
  /\ rev' = [rev EXCEPT ![c] = @ \o notes]
  /\ conn' = [conn EXCEPT ![c] = [@ EXCEPT !.st = "closed", !.peer = peer]]

\* lines 392-393: except socket.timeout
NoteTimeout(c) == REv("timeout", 0, PeerAddr(c), <<>>, "timed out")
\* lines 394-395: except Exception as e
NoteError(c, cause) == REv("error", 0, PeerAddr(c), <<>>, cause)

\* variant of a failing recv that is retried without end instead of being
\* reported by lines 392-395
HRecvFails_Hang(c) ==
  LET me == hnd[c] IN
  /\ me.pc \in {"size", "name"} \/ (me.pc = "body" /\ me.received_bytes < me.file_size)
  /\ \E how \in {"stalled", "reset"} :
       /\ RecvEnds(c, how)
       /\ conn' = [conn EXCEPT ![c].peer = how]
  /\ UNCHANGED <<dscVars, sndVars, wire, srv, hnd, rev, fs>>

\* a recv raising socket.timeout (lines 392-393) or OSError (lines 394-395)
\* anywhere in lines 330-359
HRecvFails(c) ==
  LET me == hnd[c] IN
  /\ me.pc \in {"size", "name"} \/ (me.pc = "body" /\ me.received_bytes < me.file_size)
  /\ \E how \in {"stalled", "reset"} :
       /\ RecvEnds(c, how)
       /\ hnd' = [hnd EXCEPT ![c] = [Returned(me) EXCEPT !.pc = "done",
                      !.exc = IF how = "stalled" THEN "timeout" ELSE "ConnectionResetError"]]
       /\ HandlerExit(c, << IF how = "stalled" THEN NoteTimeout(c)
                            ELSE NoteError(c, "ConnectionResetError") >>, how)
  /\ UNCHANGED <<dscVars, sndVars, wire, srv, fs>>

\* lines 329-332: one recv of the size field
HSizeRecv(c) ==
  LET me == hnd[c] IN
  /\ me.pc = "size"
  /\ \E data \in RecvData(c, FILE_SIZE_HEADER_LENGTH - Len(me.hdr), ReadSizes) :
       LET got == me.hdr \o data IN
       /\ hnd' = [hnd EXCEPT ![c] = [me EXCEPT !.hdr = got, !.rpos = @ + Len(data),
                 !.pc = IF Len(got) < FILE_SIZE_HEADER_LENGTH THEN "size" ELSE "parse"]]
       /\ wire' = Received(c, data)
  /\ UNCHANGED <<dscVars, sndVars, conn, srv, rev, fs>>

\* line 331: if not chunk: raise ConnectionError("Connection closed early.")
HSizeEof(c) ==
  LET me == hnd[c] IN
  /\ me.pc = "size" /\ RecvEnds(c, "closed")
  /\ hnd' = [hnd EXCEPT ![c] = [Returned(me) EXCEPT !.pc = "done", !.exc = "ConnectionError", !.sawEof = TRUE]]
  /\ HandlerExit(c, <<NoteError(c, "Connection closed early.")>>, "closed")
  /\ UNCHANGED <<dscVars, sndVars, wire, srv, fs>>

\* line 333: file_size = int(file_size_bytes.strip().decode('utf-8'))
HParseOk(c) ==
  LET me == hnd[c] IN
  /\ me.pc = "parse"
  /\ \E text \in {Strip(me.hdr)} :
       /\ IntParses(text)
       /\ hnd' = [hnd EXCEPT ![c] = [me EXCEPT !.pc = "name", !.file_size = IntValue(text)]]
  /\ UNCHANGED <<dscVars, sndVars, wire, conn, srv, rev, fs>>

\* variant of line 333 whose ValueError escapes handle_client and ends run()
HParseFail_EndsLoop(c) ==
  LET me == hnd[c] IN
  /\ me.pc = "parse"
  /\ \E text \in {Strip(me.hdr)} : ~IntParses(text)
  /\ hnd' = [hnd EXCEPT ![c] = [Returned(me) EXCEPT !.pc = "done", !.exc = "ValueError"]]
  /\ HandlerExit(c, <<NoteError(c, "ValueError")>>, conn[c].peer)
  /\ srv' = [srv EXCEPT !.pc = "closing", !.why = "handler"]
  /\ UNCHANGED <<dscVars, sndVars, wire, fs>>

\* line 333 raising ValueError: lines 394-395
HParseFail(c) ==
  LET me == hnd[c] IN
  /\ me.pc = "parse"
  /\ \E text \in {Strip(me.hdr)} : ~IntParses(text)
  /\ hnd' = [hnd EXCEPT ![c] = [Returned(me) EXCEPT !.pc = "done", !.exc = "ValueError"]]
  /\ HandlerExit(c, <<NoteError(c, "ValueError")>>, conn[c].peer)
  /\ UNCHANGED <<dscVars, sndVars, wire, srv, fs>>

\* lines 336-338: while (byte := conn.recv(1)) not in [b'\n', b'']
HNameByte(c) ==
  LET me == hnd[c] IN
  /\ me.pc = "name"
  /\ \E data \in RecvData(c, 1, AnySize) :
       /\ hnd' = [hnd EXCEPT ![c] =
            IF data[1] = CH_NL
            THEN [me EXCEPT !.rpos = @ + 1, !.pc = "started", !.filename = Basename(me.name)]
            ELSE [me EXCEPT !.rpos = @ + 1, !.name = Append(@, data[1])]]
       /\ wire' = Received(c, data)
  /\ UNCHANGED <<dscVars, sndVars, conn, srv, rev, fs>>

\* lines 336-338 when recv returns b'': the loop ends as on a newline
HNameEof(c) ==
  LET me == hnd[c] IN
  /\ me.pc = "name" /\ RecvEnds(c, "closed")
  /\ hnd' = [hnd EXCEPT ![c] = [me EXCEPT !.pc = "started", !.filename = Basename(me.name),
                                          !.sawEof = TRUE]]
  /\ conn' = [conn EXCEPT ![c].peer = "closed"]
  /\ UNCHANGED <<dscVars, sndVars, wire, srv, rev, fs>>

\* line 340: self.reception_started.emit(f"{filename} from {addr[0]}")
HStarted(c) ==
  LET me == hnd[c] IN
  /\ me.pc = "started"
  /\ hnd' = [hnd EXCEPT ![c] = [me EXCEPT !.pc = "path"]]
  /\ rev' = [rev EXCEPT ![c] = Append(@, REv("started", 0, PeerAddr(c), me.filename, ""))]
  /\ UNCHANGED <<dscVars, sndVars, wire, conn, srv, fs>>

\* os.path.exists of a name joined to the Downloads directory; the empty name
\* is the directory itself
Exists(name) == name = <<>> \/ name \in DOMAIN fs

\* index of the last "." of a name, 0 if none
LastDot(p) ==
  LET at == {i \in 1..Len(p) : p[i] = CH_DOT}
  IN  IF at = {} THEN 0 ELSE MaxOf(at)

\* os.path.splitext of a base name: leading dots never start an extension
SplitExt(name) ==
  LET i == LastDot(name)
      onlyDots == \A j \in 1..(i - 1) : name[j] = CH_DOT
  IN  IF i = 0 \/ onlyDots THEN <<name, <<>>>>
      ELSE <<SubSeq(name, 1, i - 1), SubSeq(name, i, Len(name))>>

\* line 403: f"{name}_{counter}{ext}" for the name and extension of line 402
Numbered(original, counter) ==
  SplitExt(original)[1] \o <<CH_USCORE>> \o DecDigits(counter) \o SplitExt(original)[2]

\* variant that puts the counter after the extension
RECURSIVE NextFree_AfterExt(_, _)
NextFree_AfterExt(original, counter) ==
  LET cand == original \o <<CH_USCORE>> \o DecDigits(counter)
  IN  IF Exists(cand) THEN NextFree_AfterExt(original, counter + 1) ELSE cand

\* lines 401-404: the first name_<counter> that does not exist
RECURSIVE NextFree(_, _)
NextFree(original, counter) ==
  LET parts == SplitExt(original)
      cand  == parts[1] \o <<CH_USCORE>> \o DecDigits(counter) \o parts[2]
  IN  IF Exists(cand) THEN NextFree(original, counter + 1) ELSE cand

\* variant of get_unique_save_path that saves every file under one name
get_unique_save_path_Fixed(filename) == <<CH_a>>

\* get_unique_save_path, lines 397-405 (paths relative to Downloads)
get_unique_save_path(filename) ==
  IF Exists(filename) THEN NextFree(filename, 1) ELSE filename

\* line 342
HPath(c) ==
  LET me == hnd[c] IN
  /\ me.pc = "path"
  /\ hnd' = [hnd EXCEPT ![c] = [me EXCEPT !.pc = "open", !.save_path = get_unique_save_path(me.filename)]]
  /\ UNCHANGED <<dscVars, sndVars, wire, conn, srv, rev, fs>>

\* fs with `path` created or truncated
Truncated(path) == [q \in DOMAIN fs \cup {path} |-> IF q = path THEN <<>> ELSE fs[q]]

\* lines 344-353: open(save_path, "wb") and the locals
HOpen(c) ==
  LET me == hnd[c] IN
  /\ me.pc = "open"
  /\ fs' = Truncated(me.save_path)
  /\ hnd' = [hnd EXCEPT ![c] = [me EXCEPT !.pc = "body", !.received_bytes = 0, !.now = 0,
                 !.last_update_bytes = 0, !.current_chunk_size = BUFFER_SIZE,
                 !.last_adapt_time = 0, !.last_adapt_bytes = 0, !.fpos = 0]]
  /\ UNCHANGED <<dscVars, sndVars, wire, conn, srv, rev>>

\* variant of f.write that writes every chunk at the start of the file
WriteAt_Rewind(content, pos, data) ==
  [i \in 1..Max(Len(content), Len(data)) |-> IF i <= Len(data) THEN data[i] ELSE content[i]]

\* `data` written at block position pos of a file holding `content`
WriteAt(content, pos, data) ==
  [i \in 1..Max(Len(content), pos + Len(data)) |->
      IF i > pos /\ i <= pos + Len(data) THEN data[i - pos]
      ELSE IF i <= Len(content) THEN content[i] ELSE 0]

ToRecv(me) == Min(me.current_chunk_size, me.file_size - me.received_bytes)

\* lines 354-363: one recv_into and the write of what it returned
HBodyRecv(c) ==
  LET me == hnd[c] IN
  /\ me.pc = "body" /\ me.received_bytes < me.file_size
  /\ \E data \in RecvData(c, Blocks(ToRecv(me)), AnySize) :
       /\ fs' = [fs EXCEPT ![me.save_path] = WriteAt(@, me.fpos, data)]
       /\ hnd' = [hnd EXCEPT ![c] = [me EXCEPT !.pc = "body_adapt", !.rpos = @ + Len(data),
                     !.fpos = @ + Len(data), !.received_bytes = @ + Len(data) * Granule]]
       /\ wire' = Received(c, data)
  /\ UNCHANGED <<dscVars, sndVars, conn, srv, rev>>

\* line 362 raising OSError (the disk is full): lines 394-395
HWriteFails(c) ==
  LET me == hnd[c] IN
  /\ me.pc = "body" /\ me.received_bytes < me.file_size
  /\ \E data \in RecvData(c, Blocks(ToRecv(me)), AnySize) :
       /\ hnd' = [hnd EXCEPT ![c] = [Returned(me) EXCEPT !.pc = "done", !.exc = "OSError",
                                               !.rpos = @ + Len(data)]]
       /\ wire' = Received(c, data)
  /\ HandlerExit(c, <<NoteError(c, "OSError")>>, conn[c].peer)
  /\ UNCHANGED <<dscVars, sndVars, srv, fs>>

\* lines 360-361: if not n: break
HBodyEof(c) ==
  LET me == hnd[c] IN
  /\ me.pc = "body" /\ me.received_bytes < me.file_size /\ RecvEnds(c, "closed")
  /\ hnd' = [hnd EXCEPT ![c] = [me EXCEPT !.pc = "final", !.sawEof = TRUE]]
  /\ conn' = [conn EXCEPT ![c].peer = "closed"]
  /\ UNCHANGED <<dscVars, sndVars, wire, srv, rev, fs>>

\* line 354: the loop condition fails
HBodyDone(c) ==
  LET me == hnd[c] IN
  /\ me.pc = "body" /\ ~(me.received_bytes < me.file_size)
  /\ hnd' = [hnd EXCEPT ![c] = [me EXCEPT !.pc = "final"]]
  /\ UNCHANGED <<dscVars, sndVars, wire, conn, srv, rev, fs>>

\* variant whose chunk size and adaptation window are one value shared by
\* all handlers instead of locals of handle_client
HBodyAdapt_Shared(c) ==
  LET me == hnd[c]
      due == ProgressDue(me.received_bytes, me.last_update_bytes, me.file_size) IN
  /\ me.pc = "body_adapt"
  /\ \E d \in TimeSteps :
       LET now   == me.now + d
           fires == AdaptFires(me.last_adapt_time, now)
           chunk == AdaptChunk(me.current_chunk_size, me.received_bytes,
                               me.last_adapt_bytes, me.last_adapt_time, now) IN
       /\ now <= MaxTime
       /\ hnd' = [x \in Conns |->
            IF x = c
            THEN [me EXCEPT !.pc = "body", !.now = now,
                   !.current_chunk_size = chunk,
                   !.prev_chunk_size = IF fires THEN me.current_chunk_size ELSE @,
                   !.last_adapt_time = IF fires THEN now ELSE @,
                   !.last_adapt_bytes = IF fires THEN me.received_bytes ELSE @,
                   !.last_update_bytes = IF due THEN me.received_bytes ELSE @]
            ELSE [hnd[x] EXCEPT !.current_chunk_size = chunk,
                   !.last_adapt_time = IF fires THEN now ELSE @,
                   !.last_adapt_bytes = IF fires THEN me.received_bytes ELSE @]]
  /\ rev' = [rev EXCEPT ![c] =
        IF due THEN Append(@, REv("progress", me.received_bytes, 0, <<>>, "")) ELSE @]
  /\ UNCHANGED <<dscVars, sndVars, wire, conn, srv, fs>>

\* lines 365-384: clock read, adaptation, progress test
HBodyAdapt(c) ==
  LET me == hnd[c]
      due == ProgressDue(me.received_bytes, me.last_update_bytes, me.file_size) IN
  /\ me.pc = "body_adapt"
  /\ \E d \in TimeSteps :
       LET now   == me.now + d
           fires == AdaptFires(me.last_adapt_time, now) IN
       /\ now <= MaxTime
       /\ hnd' = [hnd EXCEPT ![c] = [me EXCEPT !.pc = "body", !.now = now,
              !.current_chunk_size = AdaptChunk(@, me.received_bytes, me.last_adapt_bytes,
                                                me.last_adapt_time, now),
              !.prev_chunk_size = IF fires THEN me.current_chunk_size ELSE @,
              !.last_adapt_time = IF fires THEN now ELSE @,
              !.last_adapt_bytes = IF fires THEN me.received_bytes ELSE @,
              !.last_update_bytes = IF due THEN me.received_bytes ELSE @]]
  /\ rev' = [rev EXCEPT ![c] =
        IF due THEN Append(@, REv("progress", me.received_bytes, 0, <<>>, "")) ELSE @]
  /\ UNCHANGED <<dscVars, sndVars, wire, conn, srv, fs>>

\* lines 386-391: the final progress emission and file_received
HFinal(c) ==
  LET me == hnd[c] IN
  /\ me.pc = "final"
  /\ hnd' = [hnd EXCEPT ![c] = [Returned(me) EXCEPT !.pc = "done"]]
  /\ HandlerExit(c, << REv("progress", me.received_bytes, 0, <<>>, ""),
                      REv("received", 0, 0, me.save_path, "") >>, conn[c].peer)
  /\ UNCHANGED <<dscVars, sndVars, wire, srv, fs>>

(* ------------------ the announcer: broadcast_discovery ----------------- *)
CH_COLON == 58
CH_PIPE == 124
CH_P == 80
CH_C == 67
CH_ONE == 49
CH_TWO == 50

\* b"discovery_announce", lines 103 and 108
MARKER == << 100, 105, 115, 99, 111, 118, 101, 114, 121, 95,
             97, 110, 110, 111, 117, 110, 99, 101 >>

\* the address the outbound-route probe of lines 517-522 and 679-682 yields
LOCAL_IP == <<CH_ONE>>
\* the address of another host of the network
PEER_IP == <<CH_TWO>>

\* values App.device_name takes (lines 552-568, 660): stripped, never empty
DeviceNames == { <<CH_P, CH_C>>, <<CH_a>>, <<CH_a, CH_PIPE, CH_b>> }

\* lines 516, 526-530: the payload of one announcement
Announce(device_name, local_ip) ==
  LET name == IF device_name = <<>> THEN <<CH_P, CH_C>> ELSE device_name IN
  IF local_ip # <<>> THEN MARKER \o <<CH_COLON>> \o name \o <<CH_PIPE>> \o local_ip
                     ELSE MARKER \o <<CH_COLON>> \o name

\* ticks the announcer is followed for
MaxTicks == 3

\* initUI, lines 499-501: the first Timer is started. armed counts the Timer
\* objects started and neither fired nor cancelled; ref is the state of the
\* Timer object App.broadcast_timer names; tick is the position of the
\* callback that is running; failed is what went wrong in the latest tick
\* and nfail the number of ticks whose send failed
TimerStarted ==
  [ armed |-> 1, ref |-> "armed", tick |-> "idle", local_ip |-> <<>>,
    out |-> <<>>, failed |-> "none", nfail |-> 0, n |-> 0 ]

\* the interval of 5 s elapses: threading.Timer calls broadcast_discovery
TFire ==
  /\ timer.tick = "idle" /\ timer.armed > 0 /\ timer.n < MaxTicks
  /\ timer' = [timer EXCEPT !.armed = @ - 1, !.ref = "fired", !.tick = "socket",
                            !.failed = "none", !.n = @ + 1]
  /\ UNCHANGED <<xferVars, ui, disc, found, devices_list>>

\* lines 512-513: the socket is created and set to broadcast
TSocketOk ==
  /\ timer.tick = "socket"
  /\ timer' = [timer EXCEPT !.tick = "local_ip"]
  /\ UNCHANGED <<xferVars, ui, disc, found, devices_list>>

\* lines 512-513 raise (outside the try of line 514): the callback ends there
TSocketFail ==
  /\ timer.tick = "socket"
  /\ timer' = [timer EXCEPT !.tick = "idle", !.failed = "socket"]
  /\ UNCHANGED <<xferVars, ui, disc, found, devices_list>>

\* lines 517-524: the outbound address, "" when the probe raises
TLocalIp ==
  /\ timer.tick = "local_ip"
  /\ \E ip \in {LOCAL_IP, <<>>} :
       timer' = [timer EXCEPT !.tick = "send", !.local_ip = ip,
                              !.failed = IF ip = <<>> THEN "local_ip" ELSE @]
  /\ UNCHANGED <<xferVars, ui, disc, found, devices_list>>

\* lines 526-531: the payload is built and broadcast
TSendOk ==
  /\ timer.tick = "send"
  /\ timer' = [timer EXCEPT !.tick = "rearm",
                            !.out = Announce(ui.device_name, timer.local_ip)]
  /\ UNCHANGED <<xferVars, ui, disc, found, devices_list>>

\* variant in which a failed send ends the callback, as if lines 535-537
\* were inside the try block
TSendFail_Stops ==
  /\ timer.tick = "send"
  /\ timer' = [timer EXCEPT !.tick = "idle", !.failed = "send", !.nfail = @ + 1]
  /\ UNCHANGED <<xferVars, ui, disc, found, devices_list>>

\* line 531 raises; lines 532-533 print the error
TSendFail ==
  /\ timer.tick = "send"
  /\ timer' = [timer EXCEPT !.tick = "rearm", !.failed = "send", !.nfail = @ + 1]
  /\ UNCHANGED <<xferVars, ui, disc, found, devices_list>>

\* lines 535-537: a new Timer is created, stored in broadcast_timer and started
TRearm ==
  /\ timer.tick = "rearm"
  /\ timer' = [timer EXCEPT !.tick = "idle", !.armed = @ + 1, !.ref = "armed"]
  /\ UNCHANGED <<xferVars, ui, disc, found, devices_list>>

TickStep == TFire \/ TSocketOk \/ TSocketFail \/ TLocalIp \/ TSendOk \/ TSendFail \/ TRearm

(* ---------------------------- DiscoveryThread -------------------------- *)
\* DiscoveryThread.__init__ and start, lines 80-82 and 487-490
DiscoveryStarted ==
  [ pc |-> "socket", sock |-> "None", sockst |-> "none", interrupted |-> FALSE,
    dg |-> [data |-> <<>>, addr |-> <<>>, name |-> <<>>, ip |-> <<>>, built |-> FALSE],
    n |-> 0, stop |-> "idle", caught |-> "none" ]

\* DiscoveryThread.stop, lines 84-90
DiscoveryStop(d) ==
  [d EXCEPT !.interrupted = TRUE,
            !.sockst = IF d.sock = "None" THEN @ ELSE "closed"]

\* data.decode("utf-8", errors="ignore"), line 107, on the bytes the model
\* uses: ASCII is kept, the byte 0xFF (valid nowhere in UTF-8) is dropped
CH_INVALID == 255
Utf8Ignore(b) == SelectSeq(b, LAMBDA c : c < 128)

\* position of the first ch in b, 0 if there is none (str.split(ch, 1))
FirstOf(b, ch) ==
  LET at == {i \in 1..Len(b) : b[i] = ch}
  IN  IF at = {} THEN 0 ELSE MinOf(at)

\* a device_found signal
Found(ip, hostname) == [ip |-> ip, hostname |-> hostname]

\* lines 103-127: the signals emitted for one datagram, none or one
Heard(data, addr) ==
  IF data = MARKER THEN << Found(addr, <<>>) >>
  ELSE
    LET text == Utf8Ignore(data) IN
    IF ~IsPrefix(MARKER, text) THEN <<>>
    ELSE
      LET colon == FirstOf(text, CH_COLON)
          rest == IF colon = 0 THEN <<>> ELSE SubSeq(text, colon + 1, Len(text))
          bar == FirstOf(rest, CH_PIPE)
          name == IF colon = 0 THEN <<>>
                  ELSE IF bar = 0 THEN Strip(rest)
                  ELSE Strip(SubSeq(rest, 1, bar - 1))
          ip_from_msg == IF colon = 0 \/ bar = 0 THEN <<>>
                         ELSE Strip(SubSeq(rest, bar + 1, Len(rest)))
      IN  << Found(IF ip_from_msg # <<>> THEN ip_from_msg ELSE addr, name) >>

\* a datagram arriving at DISCOVERY_PORT from addr; for one built by an
\* announcer, name and ip are what it was built from
Datagram(data, addr, name, ip, built) ==
  [data |-> data, addr |-> addr, name |-> name, ip |-> ip, built |-> built]

\* what the announcers of the network (this one included) broadcast
Announcements ==
  { Datagram(Announce(n, i), a, n, i, TRUE) :
      n \in DeviceNames, i \in {<<>>, LOCAL_IP, PEER_IP}, a \in {LOCAL_IP, PEER_IP} }

\* other datagrams: the legacy marker, the marker followed by a letter, the
\* marker with a blank name, a stray byte, an undecodable byte before the marker
Strays ==
  { Datagram(d, a, <<>>, <<>>, FALSE) :
      d \in { MARKER, MARKER \o <<CH_x>>, MARKER \o <<CH_COLON, CH_SP>>, <<CH_x>>,
              <<CH_INVALID>> \o MARKER \o <<CH_COLON, CH_b>> },
      a \in {PEER_IP} }

Datagrams == {dg \in Announcements : dg.ip \in {<<>>, dg.addr}} \cup Strays

\* datagrams the listener is followed for, and signals that may wait for
\* their slot
MaxDatagrams == 3
MaxPending == 1

\* line 93: the socket is created
LSocketOk ==
  /\ disc.pc = "socket"
  /\ disc' = [disc EXCEPT !.pc = "bind", !.sock = "ref", !.sockst = "open"]
  /\ UNCHANGED <<xferVars, ui, timer, found, devices_list>>

\* line 93 raises, outside the try: run() ends
LSocketFail ==
  /\ disc.pc = "socket"
  /\ disc' = [disc EXCEPT !.pc = "done"]
  /\ UNCHANGED <<xferVars, ui, timer, found, devices_list>>

\* lines 95-98: setsockopt, bind, settimeout
LBindOk ==
  /\ disc.pc = "bind" /\ disc.sockst = "open"
  /\ disc' = [disc EXCEPT !.pc = "loop"]
  /\ UNCHANGED <<xferVars, ui, timer, found, devices_list>>

\* lines 95-98 raise (port in use, or the socket closed by stop())
LBindFail ==
  /\ disc.pc = "bind"
  /\ disc' = [disc EXCEPT !.pc = "finally"]
  /\ UNCHANGED <<xferVars, ui, timer, found, devices_list>>

\* variant of line 99 that does not test the interruption flag
LLoop_Deaf ==
  /\ disc.pc = "loop"
  /\ disc' = [disc EXCEPT !.pc = "recv"]
  /\ UNCHANGED <<xferVars, ui, timer, found, devices_list>>

\* line 99: while not self.isInterruptionRequested()
LLoop ==
  /\ disc.pc = "loop"
  /\ disc' = [disc EXCEPT !.pc = IF disc.interrupted THEN "finally" ELSE "recv"]
  /\ UNCHANGED <<xferVars, ui, timer, found, devices_list>>

\* lines 101-127: a datagram is received and decoded
LRecv ==
  /\ disc.pc = "recv" /\ disc.sockst = "open"
  /\ disc.n < MaxDatagrams /\ Len(found) < MaxPending
  /\ \E dg \in Datagrams :
       /\ disc' = [disc EXCEPT !.pc = "loop", !.dg = dg, !.n = @ + 1]
       /\ found' = found \o Heard(dg.data, dg.addr)
  /\ UNCHANGED <<xferVars, ui, timer, devices_list>>

\* lines 128-129: no datagram within 0.2 s; a recvfrom that stop() closes the
\* socket under may still end in its timeout
LTimeout ==
  /\ disc.pc = "recv"
  /\ disc' = [disc EXCEPT !.pc = "loop"]
  /\ UNCHANGED <<xferVars, ui, timer, found, devices_list>>

\* lines 130-135: recvfrom raises (the socket was closed, or another error)
LRecvFails ==
  /\ disc.pc = "recv"
  /\ disc' = [disc EXCEPT !.pc = "finally"]
  /\ UNCHANGED <<xferVars, ui, timer, found, devices_list>>

\* lines 136-141: the socket is closed and forgotten
LFinally ==
  /\ disc.pc = "finally"
  /\ disc' = [disc EXCEPT !.pc = "done", !.sock = "None", !.sockst = "closed"]
  /\ UNCHANGED <<xferVars, ui, timer, found, devices_list>>

(* DiscoveryThread.stop, lines 84-90, statement by statement *)
\* line 85: requestInterruption(), on the first or a later call
DStopRequest ==
  /\ disc.stop \in {"idle", "done"}
  /\ disc' = [disc EXCEPT !.stop = "check", !.interrupted = (@ \/ disc.pc # "done")]
  /\ UNCHANGED <<xferVars, ui, timer, found, devices_list>>

\* line 87: if self._sock is not None
DStopCheck ==
  /\ disc.stop = "check"
  /\ disc' = [disc EXCEPT !.stop = IF disc.sock = "None" THEN "done" ELSE "closing"]
  /\ UNCHANGED <<xferVars, ui, timer, found, devices_list>>

\* lines 88-90: self._sock.close() and the handler around it
DStopClose ==
  /\ disc.stop = "closing"
  /\ \E exc \in CloseOutcomes(disc.sock) :
       disc' = [disc EXCEPT !.stop = IF Escapes(exc) THEN "raised" ELSE "done",
                            !.caught = exc,
                            !.sockst = IF disc.sock = "None" THEN @ ELSE "closed"]
  /\ UNCHANGED <<xferVars, ui, timer, found, devices_list>>

ListenerStep ==
  \/ LSocketOk \/ LSocketFail \/ LBindOk \/ LBindFail \/ LLoop \/ LRecv
  \/ LTimeout \/ LRecvFails \/ LFinally

(* ---------------------------- App.add_device --------------------------- *)
\* " - " and 'Unknown', lines 689 and 694
SEP == <<CH_SP, CH_MINUS, CH_SP>>
UNKNOWN == <<85, 110, 107, 110, 111, 119, 110>>

Item(ip, text) == [ip |-> ip, text |-> text]

\* the text of a new item, lines 694 and 710
NewText(ip, hostname) ==
  ip \o SEP \o (IF Strip(hostname) # <<>> THEN Strip(hostname) ELSE UNKNOWN)

\* variant that appends an item for every announcement
Upsert_Appends(list, ip, hostname) == Append(list, Item(ip, NewText(ip, hostname)))

\* variant that shows a blank name of a known address as 'Unknown'
Upsert_Overwrites(list, ip, hostname) ==
  LET at == {i \in 1..Len(list) : list[i].ip = ip} IN
  IF at # {} THEN [list EXCEPT ![MinOf(at)].text = NewText(ip, hostname)]
  ELSE Append(list, Item(ip, NewText(ip, hostname)))

\* lines 685-697 and 701-713: the item whose UserRole data is ip gets the
\* new name unless that is blank; without such an item one is appended
Upsert(list, ip, hostname) ==
  LET at == {i \in 1..Len(list) : list[i].ip = ip} IN
  IF at # {}
  THEN IF Strip(hostname) # <<>>
       THEN [list EXCEPT ![MinOf(at)].text = ip \o SEP \o hostname]
       ELSE list
  ELSE Append(list, Item(ip, NewText(ip, hostname)))

\* variant without the test of line 683
add_device_NoFilter(list, ip, hostname, local_ip) == Upsert(list, ip, hostname)

\* lines 676-713; local_ip is <<>> when the probe of lines 679-682 raises
add_device(list, ip, hostname, local_ip) ==
  IF local_ip # <<>> /\ ip = local_ip THEN list ELSE Upsert(list, ip, hostname)

\* no add_device call yet
NoCall == [ip |-> <<>>, hostname |-> <<>>, local_ip |-> <<>>, n |-> 0]

\* the slot of device_found runs for the oldest queued signal; call keeps
\* its arguments and the address its probe found
AddDevice ==
  /\ found # <<>>
  /\ \E local_ip \in {LOCAL_IP, <<>>} :
       /\ devices_list' = add_device(devices_list, Head(found).ip,
                                     Head(found).hostname, local_ip)
       /\ ui' = [ui EXCEPT !.call = [ip |-> Head(found).ip,
                                     hostname |-> Head(found).hostname,
                                     local_ip |-> local_ip, n |-> ui.call.n + 1]]
  /\ found' = Tail(found)
  /\ UNCHANGED <<xferVars, timer, disc>>

(* --------------------------- App.closeEvent ---------------------------- *)
\* the window as initUI leaves it
WindowOpen(device_name) == [pc |-> "open", device_name |-> device_name, call |-> NoCall]

\* lines 849-852: broadcast_timer.cancel() stops the Timer it names if that
\* Timer has not fired yet
CECancelTimer ==
  /\ ui.pc = "open"
  /\ ui' = [ui EXCEPT !.pc = "stop_discovery"]
  /\ timer' = IF timer.ref = "armed"
              THEN [timer EXCEPT !.armed = @ - 1, !.ref = "cancelled"]
              ELSE timer
  /\ UNCHANGED <<xferVars, disc, found, devices_list>>

\* lines 855-858: discovery_thread.stop()
CEStopDiscovery ==
  /\ ui.pc = "stop_discovery"
  /\ ui' = [ui EXCEPT !.pc = "stop_receiver"]
  /\ disc' = DiscoveryStop(disc)
  /\ UNCHANGED <<xferVars, timer, found, devices_list>>

\* lines 860-863: file_receiver_thread.stop() runs (RStopRequest, RStopClose)
CEStopReceiver ==
  /\ ui.pc = "stop_receiver"
  /\ RStopRequest \/ RStopClose

\* lines 860-865: stop() has returned
CEReceiverStopped ==
  /\ ui.pc = "stop_receiver" /\ (srv.stopped \/ srv.pc = "off")
  /\ ui' = [ui EXCEPT !.pc = "stop_senders"]
  /\ UNCHANGED <<xferVars, timer, disc, found, devices_list>>

\* lines 865-870: stop() of each FileSenderThread of App.threads
CEStopSender(s) ==
  /\ ui.pc = "stop_senders"
  /\ StopRequest(s) \/ StopCheck(s) \/ StopClose(s)

\* lines 865-872: every sender's stop() has returned
CESendersStopped ==
  /\ ui.pc = "stop_senders"
  /\ \A s \in Senders : snd[s].pc = "off" \/ sstop[s] = "done"
  /\ ui' = [ui EXCEPT !.pc = "interrupt"]
  /\ UNCHANGED <<xferVars, timer, disc, found, devices_list>>

\* lines 872-874: requestInterruption() of every QThread of App.threads
CEInterruptAll ==
  /\ ui.pc = "interrupt"
  /\ ui' = [ui EXCEPT !.pc = "wait"]
  /\ disc' = [disc EXCEPT !.interrupted = TRUE]
  /\ srv' = [srv EXCEPT !.interrupted = (@ \/ srv.pc \notin {"off", "exited"})]
  /\ snd' = [s \in Senders |->
               [snd[s] EXCEPT !.interrupted = (@ \/ snd[s].pc \notin {"off", "done"})]]
  /\ UNCHANGED <<sstop, sev, app, wire, conn, hnd, rev, fs, timer, found, devices_list>>

\* lines 877-881: each wait(300) returns, then event.accept()
CEAccept ==
  /\ ui.pc = "wait"
  /\ ui' = [ui EXCEPT !.pc = "closed"]
  /\ UNCHANGED <<xferVars, timer, disc, found, devices_list>>

CloseStep ==
  \/ CECancelTimer \/ CEStopDiscovery \/ CEStopReceiver \/ CEReceiverStopped
  \/ CESendersStopped \/ CEInterruptAll \/ CEAccept

\* the discovery side as the transfer specifications leave it: idle
DiscoveryIdle ==
  /\ ui = WindowOpen(<<CH_P, CH_C>>)
  /\ timer = TimerStarted
  /\ disc = DiscoveryStarted
  /\ found = <<>>
  /\ devices_list = <<>>

(* ------------------- specification: one sender session ----------------- *)
InitSend ==
  /\ DiscoveryIdle
  /\ \E kind \in {"ok", "missing", "unreadable"}, n \in 0..MaxFileBlocks, p \in SendPaths :
       /\ (kind = "missing" => n = 0)
       /\ snd = [s \in Senders |-> IF s = 1 THEN SenderStart(kind, n, p) ELSE SenderOff]
  /\ sstop = [s \in Senders |-> "idle"]
  /\ sev = [s \in Senders |-> <<>>]
  /\ app = AppSending
  /\ wire = [c \in Conns |-> <<>>]
  /\ conn = [c \in Conns |-> NoConn]
  /\ srv = ReceiverInit("off")
  /\ hnd = [c \in Conns |-> HandlerIdle]
  /\ rev = [c \in Conns |-> <<>>]
  /\ fs = <<>>

\* the steps of run() when nothing fails and stop() is not called
SenderNominal(s) ==
  \/ SGetSizeOk(s) \/ SSocketOk(s) \/ SConfigureOk(s) \/ SConnectOk(s)
  \/ SHdrSizeOk(s) \/ SHdrNameOk(s) \/ SOpenOk(s) \/ SSfLoop(s) \/ SSfSendOk(s)
  \/ SSfAdapt(s) \/ SClose(s) \/ SUnref(s) \/ SFinished(s)

\* the steps of run() that a failure or a stop() leads to
SenderFaulty(s) ==
  \/ SGetSizeFail(s) \/ SSocketFail(s) \/ SConfigureClosed(s) \/ SConnectFail(s)
  \/ SHdrSizeFail(s) \/ SHdrNameFail(s) \/ SOpenFail(s)
  \/ SSfSendClosed(s) \/ SSfSendNone(s) \/ SSfSendZero(s) \/ SSfSendError(s)
  \/ SFbSeek(s) \/ SFbLoop(s) \/ SFbEof(s) \/ SFbSendOk(s) \/ SFbSendFail(s)
  \/ SFbAdapt(s) \/ SFbFinal(s)

SenderStep(s) == SenderNominal(s) \/ SenderFaulty(s)

StopStep(s) == StopRequest(s) \/ StopCheck(s) \/ StopClose(s)

NextSend == \E s \in Senders : SenderStep(s) \/ StopStep(s) \/ OnSendFinished(s)

SpecSend == InitSend /\ [][NextSend]_vars

(* --------------- specification: the receiver and scripted peers -------- *)
InitRecv ==
  /\ DiscoveryIdle
  /\ snd = [s \in Senders |-> SenderOff]
  /\ sstop = [s \in Senders |-> "idle"]
  /\ sev = [s \in Senders |-> <<>>]
  /\ app = AppSending
  /\ wire = [c \in Conns |-> <<>>]
  /\ conn = [c \in Conns |-> NoConn]
  /\ srv = ReceiverInit("loop")
  /\ hnd = [c \in Conns |-> HandlerIdle]
  /\ rev = [c \in Conns |-> <<>>]
  /\ fs = <<>>

\* the accept loop while the listening socket stays open and no call fails
AcceptorNominal == ALoop \/ (\E c \in Conns : AAccept(c)) \/ ASetupOk \/ AStart

AcceptorStep == AcceptorNominal \/ AAcceptClosed \/ ASetupFail \/ AClose

\* the steps of handle_client when every recv returns data and the write succeeds
HandlerNominal(c) ==
  \/ HSizeRecv(c) \/ HParseOk(c) \/ HNameByte(c) \/ HStarted(c) \/ HPath(c)
  \/ HOpen(c) \/ HBodyRecv(c) \/ HBodyDone(c) \/ HBodyAdapt(c) \/ HFinal(c)

\* the steps a peer's misbehaviour or a failing call leads to
HandlerFaulty(c) ==
  \/ HRecvFails(c) \/ HSizeEof(c) \/ HParseFail(c) \/ HNameEof(c)
  \/ HWriteFails(c) \/ HBodyEof(c)

HandlerStep(c) == HandlerNominal(c) \/ HandlerFaulty(c)

ReceiverStop == RStopRequest \/ RStopClose

\* the receiver left running (stop() is not called)
NextRecv ==
  \/ AcceptorNominal \/ ASetupFail \/ AClose
  \/ \E c \in Conns : PeerConnect(c) \/ HandlerStep(c)

SpecRecv == InitRecv /\ [][NextRecv]_vars

\* recv returns within SOCKET_TIMEOUT and the handler threads are scheduled
FairRecv == SpecRecv /\ \A c \in Conns : WF_vars(HandlerStep(c))

\* a sender thread that was started keeps being scheduled
FairSend == SpecSend /\ \A s \in Senders : WF_vars(SenderStep(s))

(* ------------- specifications: senders and the receiver, no faults ----- *)
\* largest file of the one-session runs, in blocks
MaxOneBlocks == 9
\* largest file of the two-session runs, in blocks
MaxPairBlocks == 1

\* everything but the sender threads, as the end-to-end runs start
IdleBut(senders) ==
  /\ DiscoveryIdle
  /\ snd = senders
  /\ sstop = [s \in Senders |-> "idle"]
  /\ sev = [s \in Senders |-> <<>>]
  /\ app = AppSending
  /\ wire = [c \in Conns |-> <<>>]
  /\ conn = [c \in Conns |-> NoConn]
  /\ srv = ReceiverInit("loop")
  /\ hnd = [c \in Conns |-> HandlerIdle]
  /\ rev = [c \in Conns |-> <<>>]
  /\ fs = <<>>

\* one sender session and the receiver
InitOne ==
  \E n \in 0..MaxOneBlocks, p \in SendPaths :
     IdleBut([s \in Senders |-> IF s = 1 THEN SenderStart("ok", n, p) ELSE SenderOff])

\* two sender sessions with files of distinct names, and the receiver
InitPair ==
  \E n1 \in 0..MaxPairBlocks, n2 \in 0..MaxPairBlocks :
     IdleBut([s \in Senders |-> IF s = 1 THEN SenderStart("ok", n1, <<CH_a>>)
                                ELSE SenderStart("ok", n2, <<CH_x, CH_SLASH, CH_b>>)])

NextE2E ==
  \/ \E s \in Senders : SenderNominal(s)
  \/ AcceptorNominal
  \/ \E c \in Conns : HandlerNominal(c)

\* every thread of the run keeps being scheduled
FairE2E ==
  /\ \A s \in Senders : WF_vars(SenderNominal(s))
  /\ WF_vars(AcceptorNominal)
  /\ \A c \in Conns : WF_vars(HandlerNominal(c))

SpecOne == InitOne /\ [][NextE2E]_vars /\ FairE2E

SpecPair == InitPair /\ [][NextE2E]_vars /\ FairE2E

(* ------------ specification: the window closes while receiving -------- *)
\* the receiver serving one scripted peer while closeEvent runs; no sender
\* thread was started
NextClose ==
  \/ AcceptorStep
  \/ PeerConnect(1) \/ HandlerStep(1)
  \/ CloseStep

SpecClose == InitRecv /\ [][NextClose]_vars

(* ------------------ specification: the announcer ---------------------- *)
\* no transfer is running
TransfersIdle ==
  /\ snd = [s \in Senders |-> SenderOff]
  /\ sstop = [s \in Senders |-> "idle"]
  /\ sev = [s \in Senders |-> <<>>]
  /\ app = AppSending
  /\ wire = [c \in Conns |-> <<>>]
  /\ conn = [c \in Conns |-> NoConn]
  /\ srv = ReceiverInit("loop")
  /\ hnd = [c \in Conns |-> HandlerIdle]
  /\ rev = [c \in Conns |-> <<>>]
  /\ fs = <<>>

InitAnn ==
  /\ TransfersIdle
  /\ \E name \in DeviceNames : ui = WindowOpen(name)
  /\ timer = TimerStarted
  /\ disc = DiscoveryStarted
  /\ found = <<>>
  /\ devices_list = <<>>

\* the announcer's ticks and the window being closed at any moment
NextAnn == TickStep \/ CloseStep

SpecAnn == InitAnn /\ [][NextAnn]_vars

(* ------------- specification: the listener and the peer list ---------- *)
InitDisc ==
  /\ TransfersIdle
  /\ ui = WindowOpen(<<CH_P, CH_C>>)
  /\ timer = TimerStarted
  /\ disc = DiscoveryStarted
  /\ found = <<>>
  /\ devices_list = <<>>

NextDisc == ListenerStep \/ AddDevice

SpecDisc == InitDisc /\ [][NextDisc]_vars

(* ------------- specification: the receiver being stopped -------------- *)
\* the accept loop with one scripted peer, and stop() called at any moment
NextHalt ==
  \/ AcceptorStep \/ AAcceptBlocked
  \/ PeerConnect(1) \/ HandlerStep(1)
  \/ ReceiverStop

SpecHalt == InitRecv /\ [][NextHalt]_vars

\* the receiver's thread and the thread calling stop() keep running
FairHalt ==
  SpecHalt /\ WF_vars(AcceptorStep \/ AAcceptBlocked) /\ WF_vars(ReceiverStop)

(* -------- specification: the listener while the window is closed ------ *)
\* the listener, the peer list, and lines 849-858 of closeEvent at any moment
NextCancel == ListenerStep \/ AddDevice \/ CECancelTimer \/ CEStopDiscovery

SpecCancel == InitDisc /\ [][NextCancel]_vars

\* the listener's thread keeps running: every recvfrom returns or raises
\* within its 0.2 s timeout
FairCancel == SpecCancel /\ WF_vars(ListenerStep)

(* ------- specification: stop() called on the three kinds of thread ----- *)
\* largest file of the session that is stopped, in blocks
MaxStopBlocks == 1

\* a thread that has ended
DiscoveryEnded == [DiscoveryStarted EXCEPT !.pc = "done", !.sockst = "closed"]
ReceiverEnded == [ReceiverInit("exited") EXCEPT !.sock = "closed"]

\* one of the three threads has been started: a sender session (towards a
\* listening peer), the receiver or the listener; the other two have ended
\* or do not exist
InitStops ==
  /\ ui = WindowOpen(<<CH_P, CH_C>>)
  /\ timer = TimerStarted
  /\ found = <<>>
  /\ devices_list = <<>>
  /\ sstop = [s \in Senders |-> "idle"]
  /\ sev = [s \in Senders |-> <<>>]
  /\ app = AppSending
  /\ wire = [c \in Conns |-> <<>>]
  /\ conn = [c \in Conns |-> NoConn]
  /\ hnd = [c \in Conns |-> HandlerIdle]
  /\ rev = [c \in Conns |-> <<>>]
  /\ fs = <<>>
  /\ \/ /\ \E kind \in {"ok", "missing", "unreadable"}, n \in 0..MaxStopBlocks :
             /\ (kind = "missing" => n = 0)
             /\ snd = [s \in Senders |->
                         IF s = 1 THEN SenderStart(kind, n, <<CH_a>>) ELSE SenderOff]
        /\ srv = ReceiverInit("off")
        /\ disc = DiscoveryEnded
     \/ /\ snd = [s \in Senders |-> SenderOff]
        /\ srv = ReceiverInit("loop")
        /\ disc = DiscoveryEnded
     \/ /\ snd = [s \in Senders |-> SenderOff]
        /\ srv = ReceiverEnded
        /\ disc = DiscoveryStarted

\* the thread runs, and stop() is called on each thread at any moment, any
\* number of times
NextStops ==
  \/ SenderStep(1) \/ StopStep(1) \/ StopAgain(1)
  \/ AcceptorStep \/ PeerConnect(2) \/ ReceiverStop \/ RStopAgain
  \/ ListenerStep \/ DStopRequest \/ DStopCheck \/ DStopClose

SpecStops == InitStops /\ [][NextStops]_vars

(* ------------- specification: one session of either role -------------- *)
\* a sending session with its failures and stop() (scripted peers may
\* connect to the listener it reaches), or the receiver serving scripted
\* peers
InitXfer == InitSend \/ InitRecv

NextXfer == NextSend \/ NextRecv

SpecXfer == InitXfer /\ [][NextXfer]_vars

(* ------ specification: one transfer into a directory that has files ---- *)
\* names saved, numbered copies that may exist already, blocks of the file
SaveNames == { <<CH_a, CH_DOT, CH_b>>, <<CH_a>> }
MaxSaved == 2
MaxSaveBlocks == 1
\* what a file saved earlier holds
OLD_CONTENT == << BlockToken(9, 1) >>

\* the names earlier saves of `name` may have left in Downloads
Saved(name) == {name} \cup {Numbered(name, k) : k \in 1..MaxSaved}

\* one sender session and the receiver; Downloads holds any of the files
\* earlier saves of the same name have left
InitSave ==
  /\ DiscoveryIdle
  /\ \E name \in SaveNames, n \in 0..MaxSaveBlocks :
       snd = [s \in Senders |-> IF s = 1 THEN SenderStart("ok", n, name) ELSE SenderOff]
  /\ sstop = [s \in Senders |-> "idle"]
  /\ sev = [s \in Senders |-> <<>>]
  /\ app = AppSending
  /\ wire = [c \in Conns |-> <<>>]
  /\ conn = [c \in Conns |-> NoConn]
  /\ srv = ReceiverInit("loop")
  /\ hnd = [c \in Conns |-> HandlerIdle]
  /\ rev = [c \in Conns |-> <<>>]
  /\ \E S \in SUBSET Saved(snd[1].path) : fs = [q \in S |-> OLD_CONTENT]

SpecSave == InitSave /\ [][NextE2E]_vars

(* ---------- specification: the header, written and then decoded -------- *)
\* file sizes os.path.getsize may return, up to the largest integer the
\* checker holds, and base names of the file sent
HeaderSizes == { 0, 7, 10, 4096, 2147483647 }
HeaderNames == { <<CH_a>>, <<CH_a, CH_DOT, CH_b>>, <<CH_SP, CH_a>>, <<CH_ZERO + 1>> }

\* the sender is past line 164, the receiver is listening
InitHeader ==
  /\ DiscoveryIdle
  /\ \E size \in HeaderSizes, name \in HeaderNames :
       snd = [s \in Senders |->
                IF s = 1
                THEN [SenderStart("ok", 0, name) EXCEPT !.pc = "socket", !.file_size = size]
                ELSE SenderOff]
  /\ sstop = [s \in Senders |-> "idle"]
  /\ sev = [s \in Senders |-> <<>>]
  /\ app = AppSending
  /\ wire = [c \in Conns |-> <<>>]
  /\ conn = [c \in Conns |-> NoConn]
  /\ srv = ReceiverInit("loop")
  /\ hnd = [c \in Conns |-> HandlerIdle]
  /\ rev = [c \in Conns |-> <<>>]
  /\ fs = <<>>

\* lines 165-176 of the sender and lines 300-340 of the receiver
NextHeader ==
  \/ SSocketOk(1) \/ SConfigureOk(1) \/ SConnectOk(1) \/ SHdrSizeOk(1) \/ SHdrNameOk(1)
  \/ AcceptorNominal
  \/ HSizeRecv(1) \/ HParseOk(1) \/ HNameByte(1) \/ HStarted(1)

SpecHeader == InitHeader /\ [][NextHeader]_vars

(* ------------------------------ properties ----------------------------- *)
LastEv(log) == log[Len(log)]
CountOf(log, k) == Cardinality({i \in 1..Len(log) : log[i].k = k})
ProgressOf(log) == SelectSeq(log, LAMBDA e : e.k = "progress")

\* the header and the whole file of session s, as one byte stream
FullStream(s) ==
  EncodeSize(snd[s].nblocks * Granule) \o EncodeName(Basename(snd[s].path))
    \o FileBlocks(s, 0, snd[s].nblocks)

\* the sender's socket does not hold the connection any more
SockGone(s) == snd[s].sockst \in {"unborn", "closed"}

\* C3: every run of the sender emits "finished" exactly once on every exit
\* path; when it is emitted the socket, if one was created, is closed; and
\* "finished" is the last signal of the run (no progress follows it).
C3_FinishedOnceAfterClose ==
  /\ [](\A s \in Senders :
          /\ CountOf(sev[s], "finished") <= 1
          /\ (snd[s].pc = "done") = HasFinished(s)
          /\ HasFinished(s) => (LastEv(sev[s]).k = "finished" /\ SockGone(s)))
  /\ \A s \in Senders : (snd[s].pc = "getsize") ~> HasFinished(s)

\* a run cancelled by stop() after some progress has emitted "finished"
C3_Witness ==
  /\ snd[1].pc = "done" /\ snd[1].observed /\ snd[1].sock = "None"
  /\ CountOf(sev[1], "progress") > 0 /\ LastEv(sev[1]).k = "finished"

\* C6: every sender session that transmitted all fileSize bytes has emitted a
\* last progress event with bytesSent = fileSize, for every file size
\* including 0, on the sendfile path (also when sendfile returns None) and on
\* the fallback path.
C6_FinalProgressIsTotal ==
  \A s \in Senders :
    (snd[s].pc = "done" /\ snd[s].exc = "none" /\ wire[s] = FullStream(s)) =>
       LET p == ProgressOf(sev[s]) IN p # <<>> /\ p[Len(p)].n = snd[s].file_size

\* the session of s ended without the whole stream having been written
SendFailed(s) == snd[s].pc = "done" /\ wire[s] # FullStream(s)

\* C7: when a sender session ends in failure, what the collaborator layer is
\* told differs from a successful completion: a failed send is never
\* presented as a success.
C7_FailureNotShownAsSuccess ==
  \A s \in Senders :
    (s \in app.delivered /\ SendFailed(s)) =>
       app.status_label # "Status: File sent successfully!"

\* C10: once a stop request is observed by the loop test no new chunk is
\* started and nothing more is written; the connection of a stopped session
\* is closed by the time "finished" is emitted; and "finished" is eventually
\* emitted after any stop request.
C10_StopEndsSession ==
  /\ [][\A s \in Senders :
          /\ (snd[s].interrupted /\ snd[s].pc \in {"sf_loop", "fb_loop"})
                => snd'[s].pc \notin {"sf_send", "fb_io"}
          /\ snd[s].observed => wire'[s] = wire[s]]_vars
  /\ [](\A s \in Senders : (sstop[s] # "idle" /\ HasFinished(s)) => SockGone(s))
  /\ \A s \in Senders : (sstop[s] # "idle" /\ snd[s].pc # "off") ~> HasFinished(s)

\* a stop observed between chunks: the session finished with part of the
\* file unsent and its socket closed
C10_Witness ==
  /\ snd[1].pc = "done" /\ snd[1].observed /\ snd[1].sockst = "closed"
  /\ snd[1].offset > 0 /\ snd[1].offset < snd[1].file_size
  /\ Len(wire[1]) < Len(FullStream(1))

\* the size field and the newline-terminated name of connection c arrived
HeaderComplete(c) ==
  /\ Len(hnd[c].hdr) = FILE_SIZE_HEADER_LENGTH
  /\ Len(wire[c]) > FILE_SIZE_HEADER_LENGTH + Len(hnd[c].name)
  /\ wire[c][FILE_SIZE_HEADER_LENGTH + Len(hnd[c].name) + 1] = CH_NL

\* the handler of c returned after the peer closed with part of the body unsent
PrematureClose(c) ==
  /\ hnd[c].pc = "done" /\ HeaderComplete(c) /\ hnd[c].file_size > 0
  /\ hnd[c].sawEof /\ hnd[c].received_bytes < hnd[c].file_size

\* C1: for a connection that delivers a complete header with fileSize N > 0
\* and whose peer closes after fewer than N body bytes, the handler's terminal
\* notification is an error naming the peer address, and "file received" is
\* never emitted for that connection.
C1_PrematureCloseIsError ==
  \A c \in Conns :
    PrematureClose(c) =>
       /\ LastEv(rev[c]).k = "error" /\ LastEv(rev[c]).addr = PeerAddr(c)
       /\ CountOf(rev[c], "received") = 0

\* this step ends the handler of c in a failure (an exception, or a stream
\* that ended early)
EndsBadly(c) ==
  hnd[c].pc # "done" /\ hnd'[c].pc = "done" /\ (hnd'[c].exc # "none" \/ hnd'[c].sawEof)

\* C2: a failure inside one connection handler is confined to it: the step
\* leaves the accept loop, the files and every other connection and handler
\* as they were, and the accept loop never ends because of a handler.
C2_FailureConfined ==
  /\ [][\A c \in Conns :
          EndsBadly(c) =>
             /\ srv' = srv /\ fs' = fs
             /\ \A d \in Conns \ {c} :
                  hnd'[d] = hnd[d] /\ rev'[d] = rev[d] /\ conn'[d] = conn[d]
                  /\ wire'[d] = wire[d]]_vars
  /\ [](srv.pc \in {"closing", "exited"} => srv.why = "setup")

\* after one handler failed, a connection accepted later was received whole
C2_Witness ==
  \E c \in Conns, d \in Conns :
    /\ c # d /\ hnd[c].pc = "done" /\ hnd[c].exc # "none"
    /\ hnd[d].afterFail /\ hnd[d].pc = "done" /\ hnd[d].exc = "none" /\ ~hnd[d].sawEof
    /\ hnd[d].received_bytes > 0 /\ LastEv(rev[d]).k = "received"

\* C4: in a fault-free run the receiver writes exactly the N bytes of the
\* sender's file, in order, to one destination file, emits a final progress
\* event with bytesTransferred = N, then "file received" for that file.
C4_FaultFreeTransfer ==
  /\ [](\A c \in Conns :
          /\ hnd[c].save_path \in DOMAIN fs =>
               fs[hnd[c].save_path] = FileBlocks(c, 0, Blocks(hnd[c].received_bytes))
          /\ hnd[c].pc = "done" =>
               /\ hnd[c].file_size = snd[c].nblocks * Granule
               /\ hnd[c].save_path = Basename(snd[c].path)
               /\ DOMAIN fs = {hnd[c].save_path}
               /\ fs[hnd[c].save_path] = FileBlocks(c, 0, snd[c].nblocks)
               /\ Len(rev[c]) >= 2
               /\ rev[c][Len(rev[c]) - 1] = REv("progress", hnd[c].file_size, 0, <<>>, "")
               /\ LastEv(rev[c]) = REv("received", 0, 0, hnd[c].save_path, "")
               /\ CountOf(rev[c], "received") = 1)
  /\ \A c \in Conns : (snd[c].pc = "getsize") ~> (hnd[c].pc = "done")

\* a file of more than one chunk was received in several reads
C4_Witness ==
  /\ hnd[1].pc = "done" /\ snd[1].nblocks * Granule > BUFFER_SIZE
  /\ CountOf(rev[1], "progress") > 2 /\ LastEv(rev[1]).k = "received"
  /\ fs[hnd[1].save_path] = FileBlocks(1, 0, snd[1].nblocks)

Malformed(c) ==
  \/ hnd[c].sawEof /\ Len(hnd[c].hdr) < FILE_SIZE_HEADER_LENGTH
  \/ /\ Len(hnd[c].hdr) = FILE_SIZE_HEADER_LENGTH
     /\ (~IntParses(Strip(hnd[c].hdr)) \/ IntValue(Strip(hnd[c].hdr)) < 0)

\* C8: a header is rejected as malformed, with an error for the peer address
\* and neither "reception started" nor a destination file, whenever the
\* connection closes before 20 size-field bytes arrived or the trimmed size
\* field is not a non-negative decimal integer (a negative one included).
C8_MalformedHeaderRejected ==
  \A c \in Conns :
    Malformed(c) =>
       /\ CountOf(rev[c], "started") = 0
       /\ hnd[c].save_path \notin DOMAIN fs
       /\ hnd[c].pc = "done" =>
            (LastEv(rev[c]).k = "error" /\ LastEv(rev[c]).addr = PeerAddr(c))

\* C9: every handler eventually terminates; a peer that stalls beyond the
\* receive timeout during the header or the body makes the handler return
\* with a timeout notification naming the peer address.
C9_HandlersTerminate ==
  /\ [](\A c \in Conns :
          conn[c].peer = "stalled" =>
             (hnd[c].pc = "done" /\ rev[c] # <<>> /\ LastEv(rev[c]) = NoteTimeout(c)))
  /\ \A c \in Conns : (hnd[c].pc = "size") ~> (hnd[c].pc = "done")

\* a peer stalled in the middle of the body and the handler reported it
C9_Witness ==
  \E c \in Conns :
    /\ conn[c].peer = "stalled" /\ hnd[c].pc = "done"
    /\ hnd[c].received_bytes > 0 /\ hnd[c].received_bytes < hnd[c].file_size
    /\ LastEv(rev[c]) = NoteTimeout(c)

\* C11: once shutdown has completed, every receiver connection handler that
\* is still active has had its connection closed (and every sender session
\* that is still active has been asked to stop and has lost its socket), so
\* that no handler goes on reading from a peer or writing to disk.
C11_ShutdownStopsSessions ==
  ui.pc = "closed" =>
    /\ \A c \in Conns : hnd[c].pc \notin {"idle", "done"} => conn[c].st = "closed"
    /\ \A s \in Senders :
         snd[s].pc \notin {"off", "done"} =>
           (snd[s].interrupted /\ snd[s].sockst # "open")


\* C12: once the shutdown sequence has cancelled the announcer, no timer
\* remains armed and no further tick runs, whatever the interleaving of the
\* cancellation with the timer callback (a tick that was executing at the
\* cancellation may end, but arms nothing).
C12_CancelEndsAnnouncer ==
  (ui.pc # "open" /\ timer.tick = "idle") => timer.armed = 0

\* C13: while the window is open, a tick whose send failed or whose local
\* address could not be determined still arms the next tick, and never more
\* than one timer is armed, after any number of failed sends.
C13_FailedTickRearms ==
  /\ timer.armed <= 1
  /\ (ui.pc = "open" /\ timer.tick = "idle" /\ timer.failed \in {"send", "local_ip"})
        => timer.armed = 1

\* two ticks in a row failed to send and the next tick is armed
C13_Witness ==
  /\ ui.pc = "open" /\ timer.tick = "idle" /\ timer.failed = "send"
  /\ timer.nfail >= 2 /\ timer.armed = 1

\* the listener has just handled a datagram
Handled == disc'.n = disc.n + 1

\* C14: the listener signals a peer only for a datagram that is exactly the
\* bare marker or the marker immediately followed by ':' and a payload; for
\* every other datagram, text beginning with the marker followed by another
\* character included, it emits nothing.
C14_OnlyAnnouncementsSignalled ==
  [][ (Handled /\ found' # found) =>
         \/ disc'.dg.data = MARKER
         \/ IsPrefix(MARKER \o <<CH_COLON>>, disc'.dg.data) ]_vars

\* C15: the listener decodes every announcement an announcer builds from a
\* display name and an address into that name and that address, taking the
\* datagram's source address when the announcement carries none; the bare
\* marker gives the empty name and the source address.
C15_AnnouncementRoundTrip ==
  [][ Handled =>
        /\ disc'.dg.built =>
             found' = Append(found,
                        Found(IF disc'.dg.ip = <<>> THEN disc'.dg.addr ELSE disc'.dg.ip,
                              disc'.dg.name))
        /\ disc'.dg.data = MARKER =>
             found' = Append(found, Found(disc'.dg.addr, <<>>)) ]_vars

\* add_device has just run; its arguments and probe result are in ui'.call
Added == ui'.call.n = ui.call.n + 1
\* positions of the items of list l that carry address ip
ItemsOf(l, ip) == {i \in 1..Len(l) : l[i].ip = ip}
\* the call was not dropped as an announcement of this host
NotOwn(call) == call.local_ip = <<>> \/ call.ip # call.local_ip

\* C16: the peer list has at most one entry per address; an announcement
\* from a known address adds no entry, one from a new address that is not
\* this host's appends exactly one entry, and no entry is ever removed.
C16_OneEntryPerAddress ==
  /\ [](\A i, j \in 1..Len(devices_list) :
          devices_list[i].ip = devices_list[j].ip => i = j)
  /\ [][ Added =>
           LET ip == ui'.call.ip
               n == Len(devices_list) IN
           /\ Len(devices_list') >= n
           /\ \A i \in 1..n : devices_list'[i].ip = devices_list[i].ip
           /\ ItemsOf(devices_list, ip) # {} => Len(devices_list') = n
           /\ (ItemsOf(devices_list, ip) = {} /\ ip # LOCAL_IP) =>
                (Len(devices_list') = n + 1 /\ devices_list'[n + 1].ip = ip) ]_vars

\* two addresses are listed and a third announcement, from one of them, was handled
C16_Witness ==
  /\ Len(devices_list) = 2 /\ ui.call.n = 3
  /\ ItemsOf(devices_list, ui.call.ip) # {}

C18_OwnAddressFiltered ==
  [][ Added =>
        LET ip == ui'.call.ip
            hostname == ui'.call.hostname IN
        /\ (ui'.call.local_ip # <<>> /\ ip = ui'.call.local_ip) =>
              devices_list' = devices_list
        /\ ui'.call.local_ip = <<>> =>
              /\ ItemsOf(devices_list', ip) # {}
              /\ Strip(hostname) # <<>> =>
                   \A i \in ItemsOf(devices_list', ip) :
                      devices_list'[i].text = ip \o SEP \o hostname ]_vars

\* this host was listed while its address was unknown, and a later
\* announcement of its own was dropped
C18_Witness ==
  /\ ItemsOf(devices_list, LOCAL_IP) # {}
  /\ ui.call.ip = LOCAL_IP /\ ui.call.local_ip = LOCAL_IP

\* the rule of one pass through the adaptation block: cur and cur2 are the
\* chunk size before and after, total the bytes moved so far, lab and lat
\* the byte count and the time of the previous window, now2 the clock
\* reading; rates are compared by cross-multiplication, in blocks per ms
WindowRule(cur, cur2, total, lab, lat, now2) ==
  LET wb == (total - lab) \div Granule
      tb == total \div Granule
      wt == now2 - lat
      faster == 10 * wb * now2 > 11 * tb * wt
      slower == 10 * wb * now2 < 9 * tb * wt
  IN  IF wt < 750 THEN cur2 = cur
      ELSE IF faster /\ cur < 2 * 1024 * 1024
      THEN cur2 > cur /\ cur2 = Min(2 * cur, 2 * 1024 * 1024)
      ELSE IF slower /\ cur > 512 * 1024
      THEN cur2 < cur /\ cur2 = Max(cur \div 2, 512 * 1024)
      ELSE cur2 = cur

\* C19: at each adaptation window of a session's controller (0.75 s or more
\* since the previous one) the chunk size doubles, capped at 2 MiB, if the
\* windowed rate exceeds the running average by more than 10% and the size
\* is below the maximum; it halves, floored at 512 KiB, if the rate is more
\* than 10% below the average and the size is above the minimum; otherwise
\* (a running average of zero included) and between windows it is
\* unchanged. So windows that keep being faster raise it at each window up
\* to the cap, windows that keep being slower lower it down to the floor.
C19_ChunkAdaptation ==
  [][ /\ \A s \in Senders :
           IF snd[s].pc \in {"sf_adapt", "fb_adapt"} /\ snd'[s].pc # snd[s].pc
           THEN WindowRule(snd[s].current_chunk_size, snd'[s].current_chunk_size,
                           snd[s].sent_bytes, snd[s].last_adapt_bytes,
                           snd[s].last_adapt_time, snd'[s].now)
           ELSE snd[s].current_chunk_size > 0 =>
                  snd'[s].current_chunk_size = snd[s].current_chunk_size
      /\ \A c \in Conns :
           IF hnd[c].pc = "body_adapt" /\ hnd'[c].pc # hnd[c].pc
           THEN WindowRule(hnd[c].current_chunk_size, hnd'[c].current_chunk_size,
                           hnd[c].received_bytes, hnd[c].last_adapt_bytes,
                           hnd[c].last_adapt_time, hnd'[c].now)
           ELSE hnd[c].current_chunk_size > 0 =>
                  hnd'[c].current_chunk_size = hnd[c].current_chunk_size ]_vars

\* a receiving session whose chunk size had fallen to the floor has doubled
\* it at its latest window, and the sending session has halved its own
C19_Witness ==
  /\ \E c \in Conns : /\ hnd[c].prev_chunk_size = MIN_BUFFER_SIZE
                      /\ hnd[c].current_chunk_size = 2 * MIN_BUFFER_SIZE
  /\ \E s \in Senders : /\ snd[s].current_chunk_size > 0
                        /\ snd[s].current_chunk_size < BUFFER_SIZE

\* the byte counts of the progress signals of a log never go down
NonDecreasing(log) ==
  \A i, j \in 1..Len(log) :
     (i < j /\ log[i].k = "progress" /\ log[j].k = "progress") => log[i].n <= log[j].n

\* C20: within one session, sending or receiving, the byte counts of
\* successive progress events never decrease, on every path: across the
\* sender's switch from sendfile to the fallback loop and with the
\* receiver's final emission after its loop.
C20_ProgressMonotone ==
  /\ \A s \in Senders : NonDecreasing(sev[s])
  /\ \A c \in Conns : NonDecreasing(rev[c])

\* a sender reported progress from sendfile, fell back to the read/sendall
\* loop and reported progress again from there
C20_Witness ==
  \E s \in Senders :
     /\ snd[s].pc = "fb_loop" /\ snd[s].fpos > 0
     /\ Len(ProgressOf(sev[s])) >= 2
     /\ ProgressOf(sev[s])[1].n < LastEv(sev[s]).n
     /\ LastEv(sev[s]).n = snd[s].sent_bytes /\ snd[s].sent_bytes > snd[s].fpos

\* C21: the path chosen for a received file does not exist when it is
\* chosen: it is the base name if that is unused, otherwise the first of
\* name_1, name_2, ... (the counter before the extension) that is unused; so
\* a directory holding name, name_1, ..., name_(k-1) from earlier saves gets
\* name_k, and a transfer handled on its own never changes an existing file.
C21_UniquePath ==
  [][ \A c \in Conns :
        /\ (hnd[c].pc = "path" /\ hnd'[c].pc = "open") =>
             LET name == hnd[c].filename
                 got == hnd'[c].save_path IN
             /\ got \notin DOMAIN fs
             /\ name \notin DOMAIN fs => got = name
             /\ name \in DOMAIN fs =>
                  \E k \in 1..(Cardinality(DOMAIN fs) + 1) :
                     /\ got = Numbered(name, k)
                     /\ \A j \in 1..(k - 1) : Numbered(name, j) \in DOMAIN fs
        /\ \A q \in DOMAIN fs : q \in DOMAIN fs' /\ (fs[q] = OLD_CONTENT => fs'[q] = OLD_CONTENT)
    ]_vars

\* the third save of a.b: a.b and a_1.b were there, the file went to a_2.b
\* and the two older files are as they were
C21_Witness ==
  LET name == <<CH_a, CH_DOT, CH_b>> IN
  /\ hnd[1].pc = "done" /\ hnd[1].filename = name
  /\ hnd[1].save_path = <<CH_a, CH_USCORE, CH_ZERO + 2, CH_DOT, CH_b>>
  /\ hnd[1].received_bytes > 0
  /\ fs[name] = OLD_CONTENT /\ fs[Numbered(name, 1)] = OLD_CONTENT
  /\ fs[hnd[1].save_path] = FileBlocks(1, 0, 1)

\* C22: the header the sender writes for a size and a base name (the size
\* left-justified in exactly 20 bytes, the name, one newline) is decoded by
\* the receiver to the same size and name, and the receiver has then read
\* exactly the 20 + length(name) + 1 header bytes and nothing after them.
C22_HeaderRoundTrip ==
  LET me == hnd[1]
      size == snd[1].file_size
      name == snd[1].path
      field == SubSeq(wire[1], 1, Min(Len(wire[1]), FILE_SIZE_HEADER_LENGTH)) IN
  /\ snd[1].pc \in {"hdr_name", "open"} =>
       /\ Len(field) = FILE_SIZE_HEADER_LENGTH
       /\ field = PadField(DecDigits(size))
  /\ snd[1].pc = "open" =>
       wire[1] = PadField(DecDigits(size)) \o name \o <<CH_NL>>
  /\ me.pc = "parse" => me.hdr = field /\ me.rpos = FILE_SIZE_HEADER_LENGTH
  /\ me.pc = "name" =>
       /\ me.file_size = size
       /\ me.rpos = FILE_SIZE_HEADER_LENGTH + Len(me.name)
       /\ IsPrefix(me.name, name)
  /\ me.pc \in {"started", "path"} =>
       /\ me.file_size = size
       /\ me.filename = name
       /\ me.rpos = FILE_SIZE_HEADER_LENGTH + Len(name) + 1
       /\ me.rpos = Len(wire[1])

\* the largest size and the name "a.b" have been decoded and announced
C22_Witness ==
  /\ hnd[1].pc = "path"
  /\ hnd[1].file_size = 2147483647
  /\ hnd[1].filename = <<CH_a, CH_DOT, CH_b>>
  /\ hnd[1].rpos = 24
  /\ Len(rev[1]) = 1 /\ rev[1][1].k = "started"

\* C23: the listener's loop goes on after a receive timeout and after any
\* datagram; once it has seen the cancellation at the head of the loop it
\* starts no further receive, and a cancelled listener and one whose socket
\* failed both end; when run() has ended the UDP socket, if one was created,
\* is closed and forgotten, whichever way the loop was left.
C23_ListenerEnds ==
  /\ [][ /\ (disc.pc = "recv" /\ disc'.pc = "loop") => disc'.sockst = disc.sockst
         /\ (disc.pc = "recv" /\ disc'.n = disc.n + 1) => disc'.pc = "loop"
         /\ (disc.pc = "loop" /\ ~disc.interrupted /\ disc'.pc # "loop") => disc'.pc = "recv"
         /\ (disc.pc = "loop" /\ disc.interrupted) => disc'.pc \in {"loop", "finally"}
     ]_vars
  /\ [](disc.pc = "done" => disc.sock = "None" /\ disc.sockst # "open")
  /\ (disc.interrupted ~> disc.pc = "done")
  /\ (disc.pc = "finally" ~> disc.pc = "done")

\* a listener that handled a datagram, was cancelled with its socket open
\* and has ended with the socket closed
C23_Witness ==
  /\ disc.pc = "done" /\ disc.interrupted /\ disc.n > 0
  /\ disc.sockst = "closed" /\ disc.sock = "None"
  /\ ui.pc = "stop_receiver"

\* C24: once stop() has been requested on the receiver the listening socket
\* gets closed and the accept loop ends, also when it is waiting in accept;
\* after the loop has seen the request at its head it accepts no connection
\* and starts no handler.
C24_StopEndsAcceptLoop ==
  /\ (srv.stopping ~> srv.sock = "closed")
  /\ (srv.stopping ~> srv.pc = "exited")
  /\ [][ (srv.pc = "loop" /\ srv.interrupted) => srv'.pc \in {"loop", "closing"} ]_vars
  /\ [][ srv.pc \in {"closing", "exited"} =>
           /\ srv'.pc \in {"closing", "exited"}
           /\ \A c \in Conns : conn[c].st # "accepted" => conn'[c].st # "accepted"
           /\ \A c \in Conns : hnd[c].pc = "idle" => hnd'[c].pc = "idle" ]_vars

\* C25: stop() of the listener, of the receiver and of a sender never
\* raises to its caller, whatever state the thread is in and however the
\* call interleaves with the thread closing its socket and clearing its
\* reference.
C25_StopNeverRaises ==
  /\ \A s \in Senders : sstop[s] # "raised"
  /\ ~srv.raised
  /\ disc.stop # "raised"

\* stop() of the listener found the reference set, run() cleared it before
\* the close, and the AttributeError stayed inside stop(); stop() of the
\* sender and of the receiver have returned too
C25_Witness ==
  /\ disc.stop = "done" /\ disc.caught = "AttributeError" /\ disc.pc = "done"
  /\ disc.n > 0 /\ srv.stopped

\* C26: the accept loop ends only after a stop request or a failure of the
\* listening socket itself (accept raising): a failure while one accepted
\* connection is set up (its socket options, the start of its handler)
\* leaves the loop running.
C26_SetupFailureKeepsLoop ==
  [][ (srv.pc \in {"loop", "accept", "setup", "start"} /\ srv'.pc \in {"closing", "exited"})
        => (srv.interrupted \/ srv.pc = "accept") ]_vars

\* C27: in every sender session the bytes written after the header are a
\* prefix of the file's content, so at most fileSize of them, and bytesSent
\* of every progress event is at most fileSize; also when sendfile raises
\* after some bytes were sent and the sender goes on in the fallback loop.
C27_BodyIsPrefixOfFile ==
  \A s \in Senders :
    /\ IsPrefix(wire[s], FullStream(s))
    /\ \A i \in 1..Len(sev[s]) : sev[s][i].k = "progress" => sev[s][i].n <= snd[s].file_size

\* the peer of c closed after the whole size field and before the newline
\* that ends the name
NameCutOff(c) ==
  /\ Len(hnd[c].hdr) = FILE_SIZE_HEADER_LENGTH /\ hnd[c].sawEof
  /\ Len(wire[c]) = FILE_SIZE_HEADER_LENGTH + Len(hnd[c].name)
  /\ \A i \in 1..Len(wire[c]) : i > FILE_SIZE_HEADER_LENGTH => wire[c][i] # CH_NL

\* C28: a connection that closes after the 20-byte size field and before
\* the newline of the file name has failed: the handler ends with an error
\* for the peer address, emits neither "reception started" nor "file
\* received", and creates no destination file.
C28_NameCutOffIsError ==
  \A c \in Conns :
    NameCutOff(c) =>
       /\ CountOf(rev[c], "started") = 0
       /\ CountOf(rev[c], "received") = 0
       /\ hnd[c].save_path \notin DOMAIN fs
       /\ hnd[c].pc = "done" =>
            (LastEv(rev[c]).k = "error" /\ LastEv(rev[c]).addr = PeerAddr(c))

\* the chunk sizes the controller may hold
ChunkSizes == {MIN_BUFFER_SIZE, 2 * MIN_BUFFER_SIZE, MAX_BUFFER_SIZE}

\* C29: in every session, sending or receiving, the chunk size starts at
\* 2 MiB and is always one of 512 KiB, 1 MiB and 2 MiB; the receiver never
\* asks one read for more than fileSize minus the bytes received so far, and
\* the bytes received never exceed fileSize.
C29_ChunkAndReadBounds ==
  /\ \A s \in Senders :
       /\ snd[s].pc \in {"sf_loop", "sf_send", "sf_adapt", "fb_seek", "fb_loop", "fb_io",
                         "fb_adapt", "fb_final"} => snd[s].current_chunk_size \in ChunkSizes
       /\ (snd[s].pc = "sf_loop" /\ snd[s].sent_bytes = 0 /\ snd[s].now = 0)
            => snd[s].current_chunk_size = MAX_BUFFER_SIZE
  /\ \A c \in Conns :
       /\ hnd[c].pc \in {"body", "body_adapt", "final"} =>
            /\ hnd[c].current_chunk_size \in ChunkSizes
            /\ hnd[c].received_bytes <= hnd[c].file_size
       /\ (hnd[c].pc = "body" /\ hnd[c].received_bytes = 0 /\ hnd[c].now = 0)
            => hnd[c].current_chunk_size = MAX_BUFFER_SIZE
       /\ (hnd[c].pc = "body" /\ hnd[c].received_bytes < hnd[c].file_size) =>
            ToRecv(hnd[c]) <= hnd[c].file_size - hnd[c].received_bytes

\* the controller state and byte counters of a session: chunk size, start
\* and byte count of the window, cumulative bytes, bytes last reported
SenderCtl(me) ==
  << me.current_chunk_size, me.last_adapt_time, me.last_adapt_bytes, me.sent_bytes,
     me.offset, me.last_update_bytes >>
HandlerCtl(me) ==
  << me.current_chunk_size, me.last_adapt_time, me.last_adapt_bytes, me.received_bytes,
     me.last_update_bytes >>

\* C30: the controller state of a session (chunk size, window start and
\* window byte count, cumulative bytes) is changed only by steps of that
\* session: a step that changes it for one sender session or one handler
\* leaves every other sender session and every other handler as it was.
C30_ControllerIsPerSession ==
  [][ /\ \A s \in Senders :
           SenderCtl(snd'[s]) # SenderCtl(snd[s]) =>
              /\ snd'[s].pc # snd[s].pc
              /\ \A t \in Senders \ {s} : snd'[t] = snd[t]
              /\ hnd' = hnd
      /\ \A c \in Conns :
           HandlerCtl(hnd'[c]) # HandlerCtl(hnd[c]) =>
              /\ hnd'[c].pc # hnd[c].pc
              /\ \A d \in Conns \ {c} : hnd'[d] = hnd[d]
              /\ snd' = snd
    ]_vars

\* both handlers are in their body loops; the first has closed an adaptation
\* window, the second has received its block and still has its first window
C30_Witness ==
  /\ hnd[1].pc = "body" /\ hnd[1].last_adapt_time > 0 /\ hnd[1].received_bytes > 0
  /\ hnd[2].pc = "body_adapt" /\ hnd[2].last_adapt_time = 0 /\ hnd[2].received_bytes > 0
  /\ snd[1].sent_bytes > 0 /\ snd[2].sent_bytes > 0

\* positions of the terminal notifications (file received, timeout, error)
\* in a handler's log
TerminalsOf(log) == {i \in 1..Len(log) : Terminal(log[i])}

\* C31: for every accepted connection the handler emits exactly one terminal
\* notification (file received, timeout or error) and nothing after it;
\* "reception started" is emitted at most once, only after the header (size
\* field, name, newline) was decoded, and before the destination file is
\* created and before every progress event of the connection.
C31_NotificationOrder ==
  \A c \in Conns :
    /\ Cardinality(TerminalsOf(rev[c])) <= 1
    /\ hnd[c].pc = "done" => Cardinality(TerminalsOf(rev[c])) = 1
    /\ \A i \in TerminalsOf(rev[c]) : i = Len(rev[c]) /\ hnd[c].pc = "done"
    /\ CountOf(rev[c], "started") <= 1
    /\ CountOf(rev[c], "started") = 1 =>
         /\ IntParses(Strip(hnd[c].hdr))
         /\ HeaderComplete(c)
    /\ hnd[c].pc \in {"body", "body_adapt", "final"} => CountOf(rev[c], "started") = 1
    /\ \A i \in 1..Len(rev[c]) :
         rev[c][i].k = "progress" => (i > 1 /\ rev[c][1].k = "started")

=============================================================================
